---- MODULE Spec2Model ----
(***************************************************************************)
(* The Docker runtime adapter of pkg/minikube/cruntime/docker.go.          *)
(*                                                                         *)
(* A caller invokes the adapter's methods one after the other against one  *)
(* host.  Every method is a straight-line program over three external      *)
(* collaborators: the service manager (r.Init), the command runner         *)
(* (r.Runner: RunCmd, Copy, Remove) and the CRI backend.  Each action      *)
(* below is one statement of a method that talks to a collaborator: it     *)
(* picks the collaborator's outcome (ok or error), applies the effect to   *)
(* the host, appends the step to the log of the running call and moves     *)
(* the call to the statement the code executes next, or returns.           *)
(***************************************************************************)
EXTENDS Integers, Sequences, FiniteSets, TLC

\* --------------------------------------------------------------------------
\* Bounds
\* --------------------------------------------------------------------------

\* Calls made in one behaviour.
MaxCalls == 2

\* Calls made in one behaviour of the specification that mixes Enable,
\* Disable and Preload.
MaxLifecycleCalls == 1

\* Calls made in one behaviour of the specification of the queries.
MaxQueryCalls == 1

\* Callers of the adapter (process identifiers).
Procs == {1, 2}

\* --------------------------------------------------------------------------
\* Names of the host's units and files
\* --------------------------------------------------------------------------

DockerService == "docker.service"
DockerSocket == "docker.socket"
\* The value callers give Docker.CRIService when the shim is required.
CRISocketUnit == "cri-docker.socket"
\* The unit dockerConfigureNetworkPlugin restarts ("cri-docker").
CRIDockerUnit == "cri-docker.service"

Units == {DockerService, DockerSocket, CRISocketUnit, CRIDockerUnit}

InternalDockerCRISocket == "/var/run/dockershim.sock"
ExternalDockerCRISocket == "/var/run/cri-dockerd.sock"

CRIConfigFile == "/etc/crictl.yaml"
DaemonConfigFile == "/etc/docker/daemon.json"
CRIDockerServiceConfFile == "/etc/systemd/system/cri-docker.service.d/10-cni.conf"
CRIDockerServiceConfDir == "/etc/systemd/system/cri-docker.service.d"
PreloadDest == "/preloaded.tar.lz4"

Paths == {CRIConfigFile, DaemonConfigFile, CRIDockerServiceConfFile,
          CRIDockerServiceConfDir, PreloadDest}

\* File contents are sequences of <<key, value>> lines; no file is <<>>.
Absent == <<>>

Directory == << <<"dir", "">> >>

\* The JSON document forceSystemd writes.
DaemonConfig ==
    << <<"exec-opts", "native.cgroupdriver=systemd">>,
       <<"log-driver", "json-file">>,
       <<"log-opts.max-size", "100m">>,
       <<"storage-driver", "overlay2">> >>

\* What populateCRIConfig writes for a socket path.
CRIConfig(socket) == << <<"runtime-endpoint", socket>>, <<"image-endpoint", socket>> >>

CNIBinDir == "/opt/cni/bin"
CNIConfDir == "/etc/cni/net.d"
CNICacheDir == "/var/lib/cni/cache"
\* cni.ConfDir, which callers leave at its default.
CniConfDir == CNIConfDir

\* --------------------------------------------------------------------------
\* State
\* --------------------------------------------------------------------------

VARIABLES
    cfg,      \* the Docker struct: Socket, UseCRI, CRIService
    units,    \* host: unit -> [masked, enabled, active]
    files,    \* host: path -> content, Absent when there is no such file
    others,   \* host: the competing runtimes, "active" or "disabled"
    images,   \* host: the image names the engine holds
    refStore, \* host: the engine's reference store, as docker.Storage left it
    op,       \* per caller: the method running or last run, "none" at first
    args,     \* per caller: the arguments of that call
    pc,       \* per caller: the statement the call is at, "idle" between calls
    issued,   \* per caller: the steps the call issued so far, in order
    ret,      \* per caller: the result of the call, kind "none" while it runs
    entry,    \* per caller: the host as the running call found it
    left,     \* calls the behaviour may still start
    last,     \* the call that returned last and the one before it
    out,      \* per caller: the value the call returned besides its error
    overlapped, \* TRUE once a call started while another caller's call ran
    start     \* the units as the concurrent callers found them

vars == <<cfg, units, files, others, images, refStore,
          op, args, pc, issued, ret, entry, left, last, out, overlapped, start>>

host == <<units, files, others, images, refStore>>

\* The host as a value.
HostRec == [units |-> units, files |-> files, others |-> others,
            images |-> images, refStore |-> refStore]

UnitState == [masked : BOOLEAN, enabled : BOOLEAN, active : BOOLEAN]

Off == [masked |-> FALSE, enabled |-> FALSE, active |-> FALSE]

\* What entry holds while its caller runs no call.
NoHost == [units |-> [u \in Units |-> Off], files |-> [f \in Paths |-> Absent],
           others |-> "active", images |-> {}, refStore |-> "none"]

\* --------------------------------------------------------------------------
\* Results and arguments
\* --------------------------------------------------------------------------

Running == [kind |-> "none", msg |-> ""]
Nil == [kind |-> "nil", msg |-> ""]
Err(m) == [kind |-> "error", msg |-> m]

\* ErrISOFeature: the error whose Error() is the missing feature.
NewErrISOFeature(missing) == [kind |-> "ErrISOFeature", msg |-> missing]

\* The preload inputs of a call that has none.
NoCC == [exists |-> FALSE, kubeadmOk |-> FALSE, expected |-> <<>>, bundleMatches |-> TRUE]

\* The arguments of a call, of every method; a method reads its own.
NoArgs == [disOthers |-> FALSE, forceSystemd |-> FALSE, inUserNamespace |-> FALSE,
           networkPlugin |-> "", ids |-> <<>>, cc |-> NoCC, path |-> {},
           name |-> <<>>, image |-> "", file |-> "", tag |-> "", push |-> FALSE,
           opts |-> <<>>, state |-> "", len |-> 0, follow |-> FALSE, rows |-> <<>>]

EnableArgs ==
    { [NoArgs EXCEPT !.disOthers = d, !.forceSystemd = f, !.inUserNamespace = u] :
        d \in BOOLEAN, f \in BOOLEAN, u \in BOOLEAN }

\* A step of a call: the collaborator's operation, what it was applied to,
\* the argument vector when it is a command, and whether it succeeded.
StepRec(o, t, ok) == [op |-> o, target |-> t, argv |-> <<>>, ok |-> ok]

\* exec.Command(argv...) handed to Runner.RunCmd.
CmdRec(argv, ok) == [op |-> "RunCmd", target |-> argv[1], argv |-> argv, ok |-> ok]

\* Docker.SocketPath
SocketPath(c) == IF c.Socket /= "" THEN c.Socket ELSE InternalDockerCRISocket

\* --------------------------------------------------------------------------
\* The service manager (sysinit.Manager): effect of one action on a unit.
\* A failed action leaves the unit as it was.
\* --------------------------------------------------------------------------

SvcUnmask(us, u, ok) == IF ok THEN [us EXCEPT ![u].masked = FALSE] ELSE us
SvcMask(us, u, ok) == IF ok THEN [us EXCEPT ![u].masked = TRUE] ELSE us
SvcEnable(us, u, ok) == IF ok THEN [us EXCEPT ![u].enabled = TRUE] ELSE us
SvcDisable(us, u, ok) == IF ok THEN [us EXCEPT ![u].enabled = FALSE] ELSE us
SvcStart(us, u, ok) == IF ok THEN [us EXCEPT ![u].active = TRUE] ELSE us
SvcRestart(us, u, ok) == IF ok THEN [us EXCEPT ![u].active = TRUE] ELSE us
SvcStop(us, u, ok) == IF ok THEN [us EXCEPT ![u].active = FALSE] ELSE us
SvcForceStop(us, u, ok) == IF ok THEN [us EXCEPT ![u].active = FALSE] ELSE us

\* The command runner's Copy of an asset to a path.
CopyFile(fs, path, content, ok) == IF ok THEN [fs EXCEPT ![path] = content] ELSE fs

\* --------------------------------------------------------------------------
\* Bookkeeping shared by the steps
\* --------------------------------------------------------------------------

Issue(p, o, t, ok) == issued' = [issued EXCEPT ![p] = Append(@, StepRec(o, t, ok))]

IssueCmd(p, argv, ok) == issued' = [issued EXCEPT ![p] = Append(@, CmdRec(argv, ok))]

Goto(p, l) ==
    /\ pc' = [pc EXCEPT ![p] = l]
    /\ UNCHANGED <<ret, entry, left, last, out, overlapped, start>>

\* What a call returns besides its error when it returns nothing else.
NoOut == <<>>

\* TRUE iff no step of the log failed.
AllOk(log) == \A i \in 1..Len(log) : log[i].ok

\* The call of p, which found the host as e, returns r.  The action that
\* uses ReturnFrom sets the host variables.  last records the call, which
\* parts of the host it left as it found them, the call before it and
\* whether that call had the same arguments.
ReturnRecord(p, r, e, v, a) ==
    /\ pc' = [pc EXCEPT ![p] = "idle"]
    /\ ret' = [ret EXCEPT ![p] = r]
    /\ out' = [out EXCEPT ![p] = v]
    /\ UNCHANGED <<overlapped, start>>
    /\ entry' = [entry EXCEPT ![p] = NoHost]
    /\ left' = left - 1
    /\ last' = [op |-> op'[p], args |-> a, ret |-> r,
                clean |-> AllOk(issued'[p]),
                same |-> [units |-> units' = e.units, files |-> files' = e.files,
                          others |-> others' = e.others, images |-> images' = e.images,
                          refStore |-> refStore' = e.refStore],
                repeat |-> (a = last.args),
                prev |-> [op |-> last.op, nil |-> (last.ret = Nil), clean |-> last.clean]]

\* A call that returns v besides its error r.
ReturnValue(p, r, e, v) == ReturnRecord(p, r, e, v, args'[p])

\* A query returns: it leaves the host as it is, and last keeps its method
\* and its result without its input.
ReturnQuery(p, r, v) == ReturnRecord(p, r, entry[p], v, NoArgs)

\* A call that returns nothing besides its error.
ReturnFrom(p, r, e) == ReturnValue(p, r, e, NoOut)

Return(p, r) == ReturnFrom(p, r, entry[p])

\* A caller may start a call when it runs none and the behaviour has calls left.
CanCall(p) == pc[p] = "idle" /\ left > 0

StartCall(p, o, a) ==
    /\ op' = [op EXCEPT ![p] = o]
    /\ args' = [args EXCEPT ![p] = a]
    /\ issued' = [issued EXCEPT ![p] = <<>>]

\* The call runs on: its first statement is l.
Enter(p, l) ==
    /\ pc' = [pc EXCEPT ![p] = l]
    /\ ret' = [ret EXCEPT ![p] = Running]
    /\ entry' = [entry EXCEPT ![p] = HostRec]
    /\ out' = [out EXCEPT ![p] = NoOut]
    /\ overlapped' = (overlapped \/ \E q \in Procs \ {p} : pc[q] # "idle")
    /\ UNCHANGED <<left, last, start>>

\* --------------------------------------------------------------------------
\* Docker.Enable
\* --------------------------------------------------------------------------

\* Mutant of EnableCall: the inUserNamespace check is missing.
EnableCall_NoCheck(p) ==
    /\ CanCall(p)
    /\ \E a \in EnableArgs :
         /\ StartCall(p, "Enable", a)
         /\ UNCHANGED <<cfg, host>>
         /\ Enter(p, IF a.disOthers THEN "Enable.disableOthers"
                                    ELSE "Enable.populateCRIConfig")

\* Entry of Enable: the inUserNamespace check and the disOthers branch.
EnableCall(p) ==
    /\ CanCall(p)
    /\ \E a \in EnableArgs :
         /\ StartCall(p, "Enable", a)
         /\ UNCHANGED <<cfg, host>>
         /\ IF a.inUserNamespace
              THEN ReturnFrom(p, Err("inUserNamespace must not be true for docker"), HostRec)
              ELSE Enter(p, IF a.disOthers THEN "Enable.disableOthers"
                                           ELSE "Enable.populateCRIConfig")

\* disableOthers(r, r.Runner): its error is logged only.
EnableDisableOthers(p) ==
    /\ pc[p] = "Enable.disableOthers"
    /\ \E ok \in BOOLEAN :
         /\ others' = IF ok THEN "disabled" ELSE others
         /\ Issue(p, "disableOthers", "", ok)
         /\ UNCHANGED <<cfg, units, files, images, refStore, op, args>>
         /\ Goto(p, "Enable.populateCRIConfig")

\* Mutant of EnablePopulateCRIConfig: docker.service is not unmasked next.
EnablePopulateCRIConfig_SkipUnmask(p) ==
    /\ pc[p] = "Enable.populateCRIConfig"
    /\ \E ok \in BOOLEAN :
         /\ files' = CopyFile(files, CRIConfigFile, CRIConfig(SocketPath(cfg)), ok)
         /\ Issue(p, "populateCRIConfig", CRIConfigFile, ok)
         /\ UNCHANGED <<cfg, units, others, images, refStore, op, args>>
         /\ IF ok THEN Goto(p, "Enable.EnableSocket")
                  ELSE Return(p, Err("populateCRIConfig"))

\* populateCRIConfig(r.Runner, r.SocketPath())
EnablePopulateCRIConfig(p) ==
    /\ pc[p] = "Enable.populateCRIConfig"
    /\ \E ok \in BOOLEAN :
         /\ files' = CopyFile(files, CRIConfigFile, CRIConfig(SocketPath(cfg)), ok)
         /\ Issue(p, "populateCRIConfig", CRIConfigFile, ok)
         /\ UNCHANGED <<cfg, units, others, images, refStore, op, args>>
         /\ IF ok THEN Goto(p, "Enable.Unmask")
                  ELSE Return(p, Err("populateCRIConfig"))

\* r.Init.Unmask("docker.service")
EnableUnmask(p) ==
    /\ pc[p] = "Enable.Unmask"
    /\ \E ok \in BOOLEAN :
         /\ units' = SvcUnmask(units, DockerService, ok)
         /\ Issue(p, "Init.Unmask", DockerService, ok)
         /\ UNCHANGED <<cfg, files, others, images, refStore, op, args>>
         /\ IF ok THEN Goto(p, "Enable.EnableSocket")
                  ELSE Return(p, Err("Init.Unmask"))

\* r.Init.Enable("docker.socket"): its error is logged only; then the
\* forceSystemd branch.
EnableSocket(p) ==
    /\ pc[p] = "Enable.EnableSocket"
    /\ \E ok \in BOOLEAN :
         /\ units' = SvcEnable(units, DockerSocket, ok)
         /\ Issue(p, "Init.Enable", DockerSocket, ok)
         /\ UNCHANGED <<cfg, files, others, images, refStore, op, args>>
         /\ Goto(p, IF args[p].forceSystemd THEN "Enable.forceSystemd"
                                            ELSE "Enable.Restart")

\* r.forceSystemd(): r.Runner.Copy of the daemon configuration
EnableForceSystemd(p) ==
    /\ pc[p] = "Enable.forceSystemd"
    /\ \E ok \in BOOLEAN :
         /\ files' = CopyFile(files, DaemonConfigFile, DaemonConfig, ok)
         /\ Issue(p, "Runner.Copy", DaemonConfigFile, ok)
         /\ UNCHANGED <<cfg, units, others, images, refStore, op, args>>
         /\ IF ok THEN Goto(p, "Enable.Restart")
                  ELSE Return(p, Err("Runner.Copy"))

\* Mutant of EnableRestart: the error of the restart is logged, not returned.
EnableRestart_LogOnly(p) ==
    /\ pc[p] = "Enable.Restart"
    /\ \E ok \in BOOLEAN :
         /\ units' = SvcRestart(units, DockerService, ok)
         /\ Issue(p, "Init.Restart", DockerService, ok)
         /\ UNCHANGED <<cfg, files, others, images, refStore, op, args>>
         /\ IF cfg.CRIService /= "" THEN Goto(p, "Enable.EnableCRI")
            ELSE Return(p, Nil)

\* Mutant of EnableRestart: the restart stops a running docker.service.
EnableRestart_Toggle(p) ==
    /\ pc[p] = "Enable.Restart"
    /\ \E ok \in BOOLEAN :
         /\ units' = IF ok THEN [units EXCEPT ![DockerService].active = ~@] ELSE units
         /\ Issue(p, "Init.Restart", DockerService, ok)
         /\ UNCHANGED <<cfg, files, others, images, refStore, op, args>>
         /\ IF ~ok THEN Return(p, Err("Init.Restart"))
            ELSE IF cfg.CRIService /= "" THEN Goto(p, "Enable.EnableCRI")
            ELSE Return(p, Nil)

\* r.Init.Restart("docker"); then the CRIService branch.
EnableRestart(p) ==
    /\ pc[p] = "Enable.Restart"
    /\ \E ok \in BOOLEAN :
         /\ units' = SvcRestart(units, DockerService, ok)
         /\ Issue(p, "Init.Restart", DockerService, ok)
         /\ UNCHANGED <<cfg, files, others, images, refStore, op, args>>
         /\ IF ~ok THEN Return(p, Err("Init.Restart"))
            ELSE IF cfg.CRIService /= "" THEN Goto(p, "Enable.EnableCRI")
            ELSE Return(p, Nil)

\* r.Init.Enable(r.CRIService)
EnableCRI(p) ==
    /\ pc[p] = "Enable.EnableCRI"
    /\ \E ok \in BOOLEAN :
         /\ units' = SvcEnable(units, cfg.CRIService, ok)
         /\ Issue(p, "Init.Enable", cfg.CRIService, ok)
         /\ UNCHANGED <<cfg, files, others, images, refStore, op, args>>
         /\ IF ok THEN Goto(p, "Enable.StartCRI")
                  ELSE Return(p, Err("Init.Enable"))

\* Mutant of EnableStartCRI: the shim is stopped, as Disable does.
EnableStartCRI_Stop(p) ==
    /\ pc[p] = "Enable.StartCRI"
    /\ \E ok \in BOOLEAN :
         /\ units' = SvcStop(units, cfg.CRIService, ok)
         /\ Issue(p, "Init.Start", cfg.CRIService, ok)
         /\ UNCHANGED <<cfg, files, others, images, refStore, op, args>>
         /\ IF ok THEN Return(p, Nil)
                  ELSE Return(p, Err("Init.Start"))

\* r.Init.Start(r.CRIService)
EnableStartCRI(p) ==
    /\ pc[p] = "Enable.StartCRI"
    /\ \E ok \in BOOLEAN :
         /\ units' = SvcStart(units, cfg.CRIService, ok)
         /\ Issue(p, "Init.Start", cfg.CRIService, ok)
         /\ UNCHANGED <<cfg, files, others, images, refStore, op, args>>
         /\ IF ok THEN Return(p, Nil)
                  ELSE Return(p, Err("Init.Start"))

\* --------------------------------------------------------------------------
\* Docker.Disable
\* --------------------------------------------------------------------------

\* Mutant of DisableCall: the shim is left alone.
DisableCall_KeepShim(p) ==
    /\ CanCall(p)
    /\ StartCall(p, "Disable", NoArgs)
    /\ UNCHANGED <<cfg, host>>
    /\ Enter(p, "Disable.ForceStopSocket")

\* Entry of Disable: the CRIService branch.
DisableCall(p) ==
    /\ CanCall(p)
    /\ StartCall(p, "Disable", NoArgs)
    /\ UNCHANGED <<cfg, host>>
    /\ Enter(p, IF cfg.CRIService /= "" THEN "Disable.StopCRI"
                                        ELSE "Disable.ForceStopSocket")

\* r.Init.Stop(r.CRIService)
DisableStopCRI(p) ==
    /\ pc[p] = "Disable.StopCRI"
    /\ \E ok \in BOOLEAN :
         /\ units' = SvcStop(units, cfg.CRIService, ok)
         /\ Issue(p, "Init.Stop", cfg.CRIService, ok)
         /\ UNCHANGED <<cfg, files, others, images, refStore, op, args>>
         /\ IF ok THEN Goto(p, "Disable.DisableCRI")
                  ELSE Return(p, Err("Init.Stop"))

\* r.Init.Disable(r.CRIService)
DisableCRI(p) ==
    /\ pc[p] = "Disable.DisableCRI"
    /\ \E ok \in BOOLEAN :
         /\ units' = SvcDisable(units, cfg.CRIService, ok)
         /\ Issue(p, "Init.Disable", cfg.CRIService, ok)
         /\ UNCHANGED <<cfg, files, others, images, refStore, op, args>>
         /\ IF ok THEN Goto(p, "Disable.ForceStopSocket")
                  ELSE Return(p, Err("Init.Disable"))

\* r.Init.ForceStop("docker.socket"): its error is logged only.
DisableForceStopSocket(p) ==
    /\ pc[p] = "Disable.ForceStopSocket"
    /\ \E ok \in BOOLEAN :
         /\ units' = SvcForceStop(units, DockerSocket, ok)
         /\ Issue(p, "Init.ForceStop", DockerSocket, ok)
         /\ UNCHANGED <<cfg, files, others, images, refStore, op, args>>
         /\ Goto(p, "Disable.ForceStopService")

\* Mutant of DisableForceStopService: the error is logged, not returned.
DisableForceStopService_LogOnly(p) ==
    /\ pc[p] = "Disable.ForceStopService"
    /\ \E ok \in BOOLEAN :
         /\ units' = SvcForceStop(units, DockerService, ok)
         /\ Issue(p, "Init.ForceStop", DockerService, ok)
         /\ UNCHANGED <<cfg, files, others, images, refStore, op, args>>
         /\ Goto(p, "Disable.DisableSocket")

\* r.Init.ForceStop("docker.service")
DisableForceStopService(p) ==
    /\ pc[p] = "Disable.ForceStopService"
    /\ \E ok \in BOOLEAN :
         /\ units' = SvcForceStop(units, DockerService, ok)
         /\ Issue(p, "Init.ForceStop", DockerService, ok)
         /\ UNCHANGED <<cfg, files, others, images, refStore, op, args>>
         /\ IF ok THEN Goto(p, "Disable.DisableSocket")
                  ELSE Return(p, Err("Init.ForceStop"))

\* r.Init.Disable("docker.socket"): its error is logged only.
DisableSocket(p) ==
    /\ pc[p] = "Disable.DisableSocket"
    /\ \E ok \in BOOLEAN :
         /\ units' = SvcDisable(units, DockerSocket, ok)
         /\ Issue(p, "Init.Disable", DockerSocket, ok)
         /\ UNCHANGED <<cfg, files, others, images, refStore, op, args>>
         /\ Goto(p, "Disable.Mask")

\* return r.Init.Mask("docker.service")
DisableMask(p) ==
    /\ pc[p] = "Disable.Mask"
    /\ \E ok \in BOOLEAN :
         /\ units' = SvcMask(units, DockerService, ok)
         /\ Issue(p, "Init.Mask", DockerService, ok)
         /\ UNCHANGED <<cfg, files, others, images, refStore, op, args>>
         /\ IF ok THEN Return(p, Nil)
                  ELSE Return(p, Err("Init.Mask"))

\* --------------------------------------------------------------------------
\* dockerConfigureNetworkPlugin
\* --------------------------------------------------------------------------

NetworkPlugins == {"", "cni", "kubenet"}

\* The extra arguments the function builds for a plugin.
ExtraArguments(networkPlugin) ==
    IF networkPlugin = "cni"
      THEN << <<"--cni-bin-dir", CNIBinDir>>,
              <<"--cni-cache-dir", CNICacheDir>>,
              <<"--cni-conf-dir", CniConfDir>>,
              <<"--hairpin-mode", "promiscuous-bridge">> >>
      ELSE <<>>

\* CRIDockerServiceConfTemplate executed on the plugin and its arguments.
CRIDockerServiceConf(networkPlugin) ==
    << <<"[Service]", "">>,
       <<"ExecStart", "">>,
       <<"ExecStart", "/usr/bin/cri-dockerd --container-runtime-endpoint fd://">>,
       <<"--network-plugin", networkPlugin>> >>
    \o ExtraArguments(networkPlugin)

MkdirCmd == <<"sudo", "mkdir", "-p", CRIDockerServiceConfDir>>

\* Entry of dockerConfigureNetworkPlugin: the no-op plugin and the rendering
\* of the template, which touches nothing on the host.
ConfigureNetworkPluginCall(p) ==
    /\ CanCall(p)
    /\ \E np \in NetworkPlugins, renderOk \in BOOLEAN :
         /\ StartCall(p, "ConfigureNetworkPlugin", [NoArgs EXCEPT !.networkPlugin = np])
         /\ UNCHANGED <<cfg, host>>
         /\ IF np = "" THEN ReturnFrom(p, Nil, HostRec)
            ELSE IF ~renderOk THEN ReturnFrom(p, Err("failed to execute template"), HostRec)
            ELSE Enter(p, "Net.mkdir")

\* cr.RunCmd(sudo mkdir -p <dir of the override file>)
NetMkdir(p) ==
    /\ pc[p] = "Net.mkdir"
    /\ \E ok \in BOOLEAN :
         /\ files' = CopyFile(files, CRIDockerServiceConfDir, Directory, ok)
         /\ IssueCmd(p, MkdirCmd, ok)
         /\ UNCHANGED <<cfg, units, others, images, refStore, op, args>>
         /\ IF ok THEN Goto(p, "Net.Copy")
                  ELSE Return(p, Err("failed to create directory"))

\* Mutant of NetCopy: the error of the write is dropped.
NetCopy_LogOnly(p) ==
    /\ pc[p] = "Net.Copy"
    /\ \E ok \in BOOLEAN :
         /\ files' = CopyFile(files, CRIDockerServiceConfFile,
                              CRIDockerServiceConf(args[p].networkPlugin), ok)
         /\ Issue(p, "Runner.Copy", CRIDockerServiceConfFile, ok)
         /\ UNCHANGED <<cfg, units, others, images, refStore, op, args>>
         /\ Goto(p, "Net.Restart")

\* cr.Copy(svc): the rendered override file
NetCopy(p) ==
    /\ pc[p] = "Net.Copy"
    /\ \E ok \in BOOLEAN :
         /\ files' = CopyFile(files, CRIDockerServiceConfFile,
                              CRIDockerServiceConf(args[p].networkPlugin), ok)
         /\ Issue(p, "Runner.Copy", CRIDockerServiceConfFile, ok)
         /\ UNCHANGED <<cfg, units, others, images, refStore, op, args>>
         /\ IF ok THEN Goto(p, "Net.Restart")
                  ELSE Return(p, Err("failed to copy template"))

\* return r.Init.Restart("cri-docker")
NetRestart(p) ==
    /\ pc[p] = "Net.Restart"
    /\ \E ok \in BOOLEAN :
         /\ units' = SvcRestart(units, CRIDockerUnit, ok)
         /\ Issue(p, "Init.Restart", CRIDockerUnit, ok)
         /\ UNCHANGED <<cfg, files, others, images, refStore, op, args>>
         /\ IF ok THEN Return(p, Nil)
                  ELSE Return(p, Err("Init.Restart"))

\* --------------------------------------------------------------------------
\* KillContainers, StopContainers, PauseContainers, UnpauseContainers
\* --------------------------------------------------------------------------

\* Longest ID list a caller passes.
MaxIds == 2

ContainerIds == {"c1", "c2"}

RECURSIVE SeqsUpTo(_, _)
\* The sequences over S of length at most n.
SeqsUpTo(S, n) ==
    IF n = 0 THEN {<<>>}
    ELSE LET shorter == SeqsUpTo(S, n - 1)
         IN  shorter \cup {Append(q, x) : q \in shorter, x \in S}

IdLists == SeqsUpTo(ContainerIds, MaxIds)

\* The native argument vector of a bulk method: docker <verb...> ids...
KillArgv(ids) == <<"docker", "rm", "-f">> \o ids
StopArgv(ids) == <<"docker", "stop">> \o ids
PauseArgv(ids) == <<"docker", "pause">> \o ids
UnpauseArgv(ids) == <<"docker", "unpause">> \o ids

\* The CRI backend's command for a bulk method (killCRIContainers and its
\* siblings): one command over the whole list.
CRIArgv(method, ids) == <<"crictl", method>> \o ids

\* Entry of a bulk method m: the UseCRI branch, the empty-list return.
BulkCall(p, m) ==
    /\ CanCall(p)
    /\ \E ids \in IdLists :
         /\ StartCall(p, m, [NoArgs EXCEPT !.ids = ids])
         /\ UNCHANGED <<cfg, host>>
         /\ IF cfg.UseCRI THEN Enter(p, "CRI.bulk")
            ELSE IF Len(ids) = 0 THEN ReturnFrom(p, Nil, HostRec)
            ELSE Enter(p, "Bulk.RunCmd")

\* The r.Runner.RunCmd of a bulk method, with the label its error is wrapped in.
BulkRun(p, m, argv, label) ==
    /\ pc[p] = "Bulk.RunCmd"
    /\ op[p] = m
    /\ \E ok \in BOOLEAN :
         /\ IssueCmd(p, argv, ok)
         /\ UNCHANGED <<cfg, host, op, args>>
         /\ IF ok THEN Return(p, Nil) ELSE Return(p, Err(label))

\* Mutant of KillContainersCall: the empty list is not returned early.
KillContainersCall_NoEmptyCheck(p) ==
    /\ CanCall(p)
    /\ \E ids \in IdLists :
         /\ StartCall(p, "KillContainers", [NoArgs EXCEPT !.ids = ids])
         /\ UNCHANGED <<cfg, host>>
         /\ IF cfg.UseCRI THEN Enter(p, "CRI.bulk") ELSE Enter(p, "Bulk.RunCmd")

KillContainersCall(p) == BulkCall(p, "KillContainers")
KillContainersRun(p) ==
    BulkRun(p, "KillContainers", KillArgv(args[p].ids), "killing containers docker")

StopContainersCall(p) == BulkCall(p, "StopContainers")
StopContainersRun(p) == BulkRun(p, "StopContainers", StopArgv(args[p].ids), "docker")

PauseContainersCall(p) == BulkCall(p, "PauseContainers")
PauseContainersRun(p) == BulkRun(p, "PauseContainers", PauseArgv(args[p].ids), "docker")

UnpauseContainersCall(p) == BulkCall(p, "UnpauseContainers")
UnpauseContainersRun(p) ==
    BulkRun(p, "UnpauseContainers", UnpauseArgv(args[p].ids), "docker")

\* The CRI backend's bulk functions: nothing for an empty list, else one
\* command over the list.
CRIBulk(p) ==
    /\ pc[p] = "CRI.bulk"
    /\ UNCHANGED <<cfg, host, op, args>>
    /\ IF Len(args[p].ids) = 0
         THEN /\ UNCHANGED issued
              /\ Return(p, Nil)
         ELSE \E ok \in BOOLEAN :
                /\ IssueCmd(p, CRIArgv(op[p], args[p].ids), ok)
                /\ IF ok THEN Return(p, Nil) ELSE Return(p, Err("crictl"))

\* --------------------------------------------------------------------------
\* Docker.Preload
\* --------------------------------------------------------------------------

\* An image name is the sequence of its "/"-separated segments:
\* "docker.io/library/A" is <<"docker.io", "library", "A">>.
ImgA == <<"A">>
ImgB == <<"B">>
ImgC == <<"C">>
DockerIO(n) == <<"docker.io">> \o n
Library(n) == <<"library">> \o n

\* The last line of a command's output, after the final newline.
EmptyLine == <<"">>

\* strings.TrimPrefix(name, seg + "/")
TrimSegment(name, seg) ==
    IF Len(name) > 1 /\ name[1] = seg THEN Tail(name) ELSE name

\* image.TrimDockerIO: the name without the implicit default registry.
TrimDockerIO(name) == TrimSegment(TrimSegment(name, "docker.io"), "library")

\* Mutant of dockerImagesPreloaded: one preloaded image is enough.
dockerImagesPreloaded_Any(ok, present, expected) ==
    /\ ok
    /\ LET preloadedImages == {TrimDockerIO(i) : i \in present \cup {EmptyLine}}
       IN  \E k \in 1..Len(expected) : TrimDockerIO(expected[k]) \in preloadedImages

\* dockerImagesPreloaded, given the outcome of "docker images" and the
\* names it printed: FALSE when the command fails, else whether every
\* expected name, trimmed, is among the trimmed lines of the output.
dockerImagesPreloaded(ok, present, expected) ==
    /\ ok
    /\ LET preloadedImages == {TrimDockerIO(i) : i \in present \cup {EmptyLine}}
       IN  \A k \in 1..Len(expected) : TrimDockerIO(expected[k]) \in preloadedImages

\* The image lists images.Kubeadm returns in the model.
ExpectedLists == { <<ImgA, ImgB>>, <<ImgA>>, <<DockerIO(Library(ImgB))>> }

\* The images a bundle holds, as the engine lists them after extraction:
\* ImgC and, when the bundle was built for the image list images.Kubeadm
\* returns (no other image repository), the images of that list.
BundleImages(cc) ==
    {ImgC} \cup
    (IF cc.bundleMatches
       THEN {DockerIO(Library(TrimDockerIO(cc.expected[k]))) : k \in 1..Len(cc.expected)}
       ELSE {})

PreloadCCs ==
    {NoCC, [NoCC EXCEPT !.exists = TRUE]}
    \cup {[exists |-> TRUE, kubeadmOk |-> TRUE, expected |-> e, bundleMatches |-> m] :
            e \in ExpectedLists, m \in BOOLEAN}

ImagesCmd == <<"docker", "images", "--format", "{{.Repository}}:{{.Tag}}">>
WhichLz4Cmd == <<"which", "lz4">>
TarCmd == <<"sudo", "tar", "-I", "lz4", "-C", "/var", "-xf", PreloadDest>>

\* The staged bundle file.
Tarball == << <<"preloaded-images", "tar.lz4">> >>

\* Mutant of PreloadCall: the existence of the bundle is not checked.
PreloadCall_NoExistsCheck(p) ==
    /\ CanCall(p)
    /\ \E cc \in PreloadCCs :
         /\ StartCall(p, "Preload", [NoArgs EXCEPT !.cc = cc])
         /\ UNCHANGED <<cfg, host>>
         /\ IF ~cc.kubeadmOk THEN ReturnFrom(p, Err("getting images"), HostRec)
            ELSE Enter(p, "Preload.imagesPreloaded")

\* Entry of Preload: download.PreloadExists and images.Kubeadm.
PreloadCall(p) ==
    /\ CanCall(p)
    /\ \E cc \in PreloadCCs :
         /\ StartCall(p, "Preload", [NoArgs EXCEPT !.cc = cc])
         /\ UNCHANGED <<cfg, host>>
         /\ IF ~cc.exists THEN ReturnFrom(p, Nil, HostRec)
            ELSE IF ~cc.kubeadmOk THEN ReturnFrom(p, Err("getting images"), HostRec)
            ELSE Enter(p, "Preload.imagesPreloaded")

\* dockerImagesPreloaded(r.Runner, images): the "docker images" command
PreloadImagesPreloaded(p) ==
    /\ pc[p] = "Preload.imagesPreloaded"
    /\ \E ok \in BOOLEAN :
         /\ IssueCmd(p, ImagesCmd, ok)
         /\ UNCHANGED <<cfg, host, op, args>>
         /\ IF dockerImagesPreloaded(ok, images, args[p].cc.expected)
              THEN Return(p, Nil)
              ELSE Goto(p, "Preload.Save")

\* refStore.Save(): its error is logged only.
PreloadSave(p) ==
    /\ pc[p] = "Preload.Save"
    /\ \E ok \in BOOLEAN :
         /\ refStore' = IF ok THEN "saved" ELSE refStore
         /\ Issue(p, "refStore.Save", "", ok)
         /\ UNCHANGED <<cfg, units, files, others, images, op, args>>
         /\ Goto(p, "Preload.whichLz4")

\* Mutant of PreloadWhichLz4: the check comes after the bundle is staged.
PreloadWhichLz4_Late(p) ==
    /\ pc[p] = "Preload.whichLz4"
    /\ \E ok \in BOOLEAN :
         /\ files' = CopyFile(files, PreloadDest, Tarball, TRUE)
         /\ issued' = [issued EXCEPT ![p] =
                         @ \o <<StepRec("Runner.Copy", PreloadDest, TRUE),
                                CmdRec(WhichLz4Cmd, ok)>>]
         /\ UNCHANGED <<cfg, units, others, images, refStore, op, args>>
         /\ IF ok THEN Goto(p, "Preload.Extract")
                  ELSE Return(p, NewErrISOFeature("lz4"))

\* r.Runner.RunCmd(which lz4)
PreloadWhichLz4(p) ==
    /\ pc[p] = "Preload.whichLz4"
    /\ \E ok \in BOOLEAN :
         /\ IssueCmd(p, WhichLz4Cmd, ok)
         /\ UNCHANGED <<cfg, host, op, args>>
         /\ IF ok THEN Goto(p, "Preload.NewFileAsset")
                  ELSE Return(p, NewErrISOFeature("lz4"))

\* assets.NewFileAsset(tarballPath, ...): opens the tarball on the caller's
\* side; nothing reaches the host.
PreloadNewFileAsset(p) ==
    /\ pc[p] = "Preload.NewFileAsset"
    /\ \E ok \in BOOLEAN :
         /\ Issue(p, "assets.NewFileAsset", "", ok)
         /\ UNCHANGED <<cfg, host, op, args>>
         /\ IF ok THEN Goto(p, "Preload.Copy")
                  ELSE Return(p, Err("getting file asset"))

\* r.Runner.Copy(fa): the bundle is staged at /preloaded.tar.lz4
PreloadCopy(p) ==
    /\ pc[p] = "Preload.Copy"
    /\ \E ok \in BOOLEAN :
         /\ files' = CopyFile(files, PreloadDest, Tarball, ok)
         /\ Issue(p, "Runner.Copy", PreloadDest, ok)
         /\ UNCHANGED <<cfg, units, others, images, refStore, op, args>>
         /\ IF ok THEN Goto(p, "Preload.Extract")
                  ELSE Return(p, Err("copying file"))

\* Mutant of PreloadExtract: the error of the extraction is logged only.
PreloadExtract_LogOnly(p) ==
    /\ pc[p] = "Preload.Extract"
    /\ \E ok \in BOOLEAN :
         /\ images' = IF ok THEN images \cup BundleImages(args[p].cc) ELSE images
         /\ IssueCmd(p, TarCmd, ok)
         /\ UNCHANGED <<cfg, units, files, others, refStore, op, args>>
         /\ Goto(p, "Preload.Remove")

\* Mutant of PreloadExtract: a failed extraction removes the staged bundle
\* before the error is returned.
PreloadExtract_Cleanup(p) ==
    /\ pc[p] = "Preload.Extract"
    /\ \E ok \in BOOLEAN :
         /\ images' = IF ok THEN images \cup BundleImages(args[p].cc) ELSE images
         /\ files' = IF ok THEN files ELSE [files EXCEPT ![PreloadDest] = Absent]
         /\ issued' = [issued EXCEPT ![p] =
                         IF ok THEN Append(@, CmdRec(TarCmd, ok))
                         ELSE Append(Append(@, CmdRec(TarCmd, ok)),
                                     StepRec("Runner.Remove", PreloadDest, TRUE))]
         /\ UNCHANGED <<cfg, units, others, refStore, op, args>>
         /\ IF ok THEN Goto(p, "Preload.Remove")
                  ELSE Return(p, Err("extracting tarball"))

\* r.Runner.RunCmd(sudo tar -I lz4 -C /var -xf /preloaded.tar.lz4)
PreloadExtract(p) ==
    /\ pc[p] = "Preload.Extract"
    /\ \E ok \in BOOLEAN :
         /\ images' = IF ok THEN images \cup BundleImages(args[p].cc) ELSE images
         /\ IssueCmd(p, TarCmd, ok)
         /\ UNCHANGED <<cfg, units, files, others, refStore, op, args>>
         /\ IF ok THEN Goto(p, "Preload.Remove")
                  ELSE Return(p, Err("extracting tarball"))

\* Mutant of PreloadRemove: the error of the removal is returned.
PreloadRemove_Fatal(p) ==
    /\ pc[p] = "Preload.Remove"
    /\ \E ok \in BOOLEAN :
         /\ files' = IF ok THEN [files EXCEPT ![PreloadDest] = Absent] ELSE files
         /\ Issue(p, "Runner.Remove", PreloadDest, ok)
         /\ UNCHANGED <<cfg, units, others, images, refStore, op, args>>
         /\ IF ok THEN Goto(p, "Preload.SaveAgain")
                  ELSE Return(p, Err("removing tarball"))

\* r.Runner.Remove(fa): its error is logged only.
PreloadRemove(p) ==
    /\ pc[p] = "Preload.Remove"
    /\ \E ok \in BOOLEAN :
         /\ files' = IF ok THEN [files EXCEPT ![PreloadDest] = Absent] ELSE files
         /\ Issue(p, "Runner.Remove", PreloadDest, ok)
         /\ UNCHANGED <<cfg, units, others, images, refStore, op, args>>
         /\ Goto(p, "Preload.SaveAgain")

\* refStore.Save() after the extraction: its error is logged only.
PreloadSaveAgain(p) ==
    /\ pc[p] = "Preload.SaveAgain"
    /\ \E ok \in BOOLEAN :
         /\ refStore' = IF ok THEN "saved" ELSE refStore
         /\ Issue(p, "refStore.Save", "", ok)
         /\ UNCHANGED <<cfg, units, files, others, images, op, args>>
         /\ Goto(p, "Preload.Update")

\* refStore.Update(): its error is logged only.
PreloadUpdate(p) ==
    /\ pc[p] = "Preload.Update"
    /\ \E ok \in BOOLEAN :
         /\ refStore' = IF ok THEN "updated" ELSE refStore
         /\ Issue(p, "refStore.Update", "", ok)
         /\ UNCHANGED <<cfg, units, files, others, images, op, args>>
         /\ Goto(p, "Preload.Restart")

\* return r.Restart(): r.Init.Restart("docker")
PreloadRestart(p) ==
    /\ pc[p] = "Preload.Restart"
    /\ \E ok \in BOOLEAN :
         /\ units' = SvcRestart(units, DockerService, ok)
         /\ Issue(p, "Init.Restart", DockerService, ok)
         /\ UNCHANGED <<cfg, files, others, images, refStore, op, args>>
         /\ IF ok THEN Return(p, Nil)
                  ELSE Return(p, Err("Init.Restart"))

\* --------------------------------------------------------------------------
\* Docker.Available
\* --------------------------------------------------------------------------

\* semver.Version: major, minor, patch and whether it has a pre-release tag.
Version(major, minor, patch, pre) ==
    [Major |-> major, Minor |-> minor, Patch |-> patch, Pre |-> pre]

\* semver's GTE against a version without pre-release tag: the numbers are
\* compared in order, and with equal numbers a pre-release is the older one.
GTE(v, o) ==
    IF v.Major # o.Major THEN v.Major > o.Major
    ELSE IF v.Minor # o.Minor THEN v.Minor > o.Minor
    ELSE IF v.Patch # o.Patch THEN v.Patch > o.Patch
    ELSE ~v.Pre

Binaries == {"cri-dockerd", "dockerd", "docker"}

\* exec.LookPath(file) against the executables path resolves.
LookPath(path, file) == IF file \in path THEN Nil ELSE Err(file)

\* Mutant of Available: dockerd is not looked up.
Available_NoDockerd(v, path) ==
    IF GTE(v, Version(1, 24, 0, FALSE)) /\ LookPath(path, "cri-dockerd") # Nil
    THEN LookPath(path, "cri-dockerd")
    ELSE LookPath(path, "docker")

Available(v, path) ==
    IF GTE(v, Version(1, 24, 0, FALSE)) /\ LookPath(path, "cri-dockerd") # Nil
    THEN LookPath(path, "cri-dockerd")
    ELSE IF GTE(v, Version(1, 24, 0, FALSE)) /\ LookPath(path, "dockerd") # Nil
    THEN LookPath(path, "dockerd")
    ELSE LookPath(path, "docker")

\* r.Available() on a host where the executables of path resolve.
AvailableCall(p) ==
    /\ CanCall(p)
    /\ \E path \in SUBSET Binaries :
         StartCall(p, "Available", [NoArgs EXCEPT !.path = path])
    /\ Enter(p, "Available.LookPath")
    /\ UNCHANGED <<cfg, host>>

AvailableLookPath(p) ==
    /\ pc[p] = "Available.LookPath"
    /\ UNCHANGED <<cfg, host, op, args, issued>>
    /\ ReturnQuery(p, Available(cfg.KubernetesVersion, args[p].path), NoOut)

\* --------------------------------------------------------------------------
\* Docker.KubeletOptions
\* --------------------------------------------------------------------------

CRIOptionKeys ==
    {"container-runtime", "container-runtime-endpoint", "image-service-endpoint",
     "runtime-request-timeout"}

\* Mutant of KubeletOptions: the endpoints are the Socket field as it is.
KubeletOptions_RawSocket(c) ==
    IF c.UseCRI
    THEN [k \in CRIOptionKeys |->
            CASE k = "container-runtime" -> "remote"
              [] k = "container-runtime-endpoint" -> c.Socket
              [] k = "image-service-endpoint" -> c.Socket
              [] k = "runtime-request-timeout" -> "15m"]
    ELSE [k \in {"container-runtime"} |-> "docker"]

\* The map of kubelet options, as a function from option to value.
KubeletOptions(c) ==
    IF c.UseCRI
    THEN [k \in CRIOptionKeys |->
            CASE k = "container-runtime" -> "remote"
              [] k = "container-runtime-endpoint" -> SocketPath(c)
              [] k = "image-service-endpoint" -> SocketPath(c)
              [] k = "runtime-request-timeout" -> "15m"]
    ELSE [k \in {"container-runtime"} |-> "docker"]

KubeletOptionsCall(p) ==
    /\ CanCall(p)
    /\ StartCall(p, "KubeletOptions", NoArgs)
    /\ Enter(p, "KubeletOptions.return")
    /\ UNCHANGED <<cfg, host>>

KubeletOptionsReturn(p) ==
    /\ pc[p] = "KubeletOptions.return"
    /\ UNCHANGED <<cfg, host, op, args, issued>>
    /\ ReturnQuery(p, Nil, KubeletOptions(cfg))

\* --------------------------------------------------------------------------
\* addDockerIO
\* --------------------------------------------------------------------------

\* An image name is the sequence of its "/"-separated segments, so a name
\* without "/" has one segment and the empty name is the one empty segment.
MaxSegments == 3

Segments == {"nginx", "myuser", "app", "myregistry.io", ""}

\* strings.Contains(seg, ".")
HasDot(seg) == seg \in {"myregistry.io", "docker.io"}

ImageNames == UNION { [1..n -> Segments] : n \in 1..MaxSegments }

\* Mutant of addDockerIO: the registry is prepended to every name with "/".
addDockerIO_Always(name) ==
    IF Len(name) > 1
    THEN <<"docker.io">> \o <<Head(name)>> \o Tail(name)
    ELSE <<"docker.io">> \o <<"library">> \o name

\* p = strings.SplitN(name, "/", 2) has two elements iff the name has two
\* segments or more: Head(name), and Tail(name) joined by "/".
addDockerIO(name) ==
    IF Len(name) > 1 /\ HasDot(Head(name))
    THEN LET reg == Head(name)
             img == Tail(name)
         IN  <<reg>> \o img
    ELSE LET reg == "docker.io"
         IN  IF Len(name) > 1
             THEN LET usr == Head(name)
                      img == Tail(name)
                  IN  <<reg>> \o <<usr>> \o img
             ELSE LET usr == "library"
                      img == name
                  IN  <<reg>> \o <<usr>> \o img

addDockerIOCall(p) ==
    /\ CanCall(p)
    /\ \E name \in ImageNames :
         StartCall(p, "addDockerIO", [NoArgs EXCEPT !.name = name])
    /\ Enter(p, "addDockerIO.return")
    /\ UNCHANGED <<cfg, host>>

addDockerIOReturn(p) ==
    /\ pc[p] = "addDockerIO.return"
    /\ UNCHANGED <<cfg, host, op, args, issued>>
    /\ ReturnQuery(p, Nil, addDockerIO(args[p].name))

\* --------------------------------------------------------------------------
\* The operations that run one native command whatever the mode: Version,
\* CGroupDriver, LoadImage, SaveImage, TagImage, PushImage, and BuildImage
\* --------------------------------------------------------------------------

\* Image references and host paths callers pass; an argument built with
\* fmt.Sprintf is the sequence of its pieces in place of their concatenation.
ImageRefs == {"nginx", "myuser/app"}
ImagePaths == {"/tmp/image.tar"}
FirstLines == {"", "24.0.7"}

VersionArgv == <<"docker", "version", "--format", "{{.Server.Version}}">>
CGroupDriverArgv == <<"docker", "info", "--format", "{{.CgroupDriver}}">>
LoadArgv(path) == <<"/bin/bash", "-c", "sudo cat ", path, " | docker load">>
SaveArgv(name, path) ==
    <<"/bin/bash", "-c", "docker save '", name, "' | sudo tee ", path, " >/dev/null">>
TagArgv(source, target) == <<"docker", "tag", source, target>>
PushArgv(name) == <<"docker", "push", name>>
PullArgv(name) == <<"docker", "pull", name>>
RmiArgv(name) == <<"docker", "rmi", name>>

\* Entry of a method m that the mode does not branch: its one command is next.
NativeCall(p, m, A) ==
    /\ CanCall(p)
    /\ \E a \in A : StartCall(p, m, a)
    /\ Enter(p, "Native.RunCmd")
    /\ UNCHANGED <<cfg, host>>

\* The r.Runner.RunCmd of method m and the return after it, with the label
\* the error is wrapped in.
NativeRun(p, m, argv, label) ==
    /\ pc[p] = "Native.RunCmd"
    /\ op[p] = m
    /\ \E ok \in BOOLEAN :
         /\ IssueCmd(p, argv, ok)
         /\ UNCHANGED <<cfg, host, op, args>>
         /\ IF ok THEN Return(p, Nil) ELSE Return(p, Err(label))

\* The same for a method that returns the first line of the output, and
\* the runner's error as it is.
NativeQuery(p, m, argv) ==
    /\ pc[p] = "Native.RunCmd"
    /\ op[p] = m
    /\ \E ok \in BOOLEAN, line \in FirstLines :
         /\ IssueCmd(p, argv, ok)
         /\ UNCHANGED <<cfg, host, op, args>>
         /\ IF ok THEN ReturnValue(p, Nil, entry[p], line)
            ELSE ReturnValue(p, Err("RunCmd"), entry[p], "")

VersionCall(p) == NativeCall(p, "Version", {NoArgs})
VersionRun(p) == NativeQuery(p, "Version", VersionArgv)

CGroupDriverCall(p) == NativeCall(p, "CGroupDriver", {NoArgs})
CGroupDriverRun(p) == NativeQuery(p, "CGroupDriver", CGroupDriverArgv)

\* Mutant of LoadImageCall: under UseCRI the CRI backend loads the image.
LoadImageCall_Delegates(p) ==
    /\ CanCall(p)
    /\ \E f \in ImagePaths : StartCall(p, "LoadImage", [NoArgs EXCEPT !.file = f])
    /\ IF cfg.UseCRI THEN Enter(p, "CRI.image") ELSE Enter(p, "Native.RunCmd")
    /\ UNCHANGED <<cfg, host>>

LoadImageCall(p) ==
    NativeCall(p, "LoadImage", {[NoArgs EXCEPT !.file = f] : f \in ImagePaths})
LoadImageRun(p) == NativeRun(p, "LoadImage", LoadArgv(args[p].file), "loadimage docker")

SaveImageCall(p) ==
    NativeCall(p, "SaveImage",
               {[NoArgs EXCEPT !.image = n, !.file = f] : n \in ImageRefs, f \in ImagePaths})
SaveImageRun(p) ==
    NativeRun(p, "SaveImage", SaveArgv(args[p].image, args[p].file), "saveimage docker")

TagImageCall(p) ==
    NativeCall(p, "TagImage",
               {[NoArgs EXCEPT !.image = s, !.tag = t] : s \in ImageRefs, t \in ImageRefs})
TagImageRun(p) ==
    NativeRun(p, "TagImage", TagArgv(args[p].image, args[p].tag), "tag image docker")

PushImageCall(p) ==
    NativeCall(p, "PushImage", {[NoArgs EXCEPT !.image = n] : n \in ImageRefs})
PushImageRun(p) == NativeRun(p, "PushImage", PushArgv(args[p].image), "push image docker")

\* Docker.BuildImage: docker build [-f file] [-t tag] src [--opt ...], then
\* docker push tag when a tag is given and push is asked.
BuildSrc == "/src"
BuildArgs ==
    { [NoArgs EXCEPT !.file = f, !.tag = t, !.push = ph, !.opts = o] :
        f \in {"", "Dockerfile"}, t \in {"", "myuser/app"}, ph \in BOOLEAN,
        o \in {<<>>, <<"no-cache">>} }

BuildArgv(a) ==
    <<"docker", "build">>
      \o (IF a.file # "" THEN <<"-f", a.file>> ELSE <<>>)
      \o (IF a.tag # "" THEN <<"-t", a.tag>> ELSE <<>>)
      \o <<BuildSrc>>
      \o [i \in 1..(2 * Len(a.opts)) |-> IF i % 2 = 1 THEN "--" ELSE a.opts[i \div 2]]

BuildImageCall(p) ==
    /\ CanCall(p)
    /\ \E a \in BuildArgs : StartCall(p, "BuildImage", a)
    /\ Enter(p, "BuildImage.build")
    /\ UNCHANGED <<cfg, host>>

BuildImageBuild(p) ==
    /\ pc[p] = "BuildImage.build"
    /\ \E ok \in BOOLEAN :
         /\ IssueCmd(p, BuildArgv(args[p]), ok)
         /\ UNCHANGED <<cfg, host, op, args>>
         /\ IF ~ok THEN Return(p, Err("buildimage docker"))
            ELSE IF args[p].tag # "" /\ args[p].push THEN Goto(p, "BuildImage.push")
            ELSE Return(p, Nil)

BuildImagePush(p) ==
    /\ pc[p] = "BuildImage.push"
    /\ \E ok \in BOOLEAN :
         /\ IssueCmd(p, PushArgv(args[p].tag), ok)
         /\ UNCHANGED <<cfg, host, op, args>>
         /\ IF ok THEN Return(p, Nil) ELSE Return(p, Err("pushimage docker"))

\* --------------------------------------------------------------------------
\* The operations that branch on the mode: PullImage, RemoveImage,
\* ListContainers and ContainerLogCmd
\* --------------------------------------------------------------------------

\* Entry of PullImage and RemoveImage: the UseCRI branch.
ImageCall(p, m) ==
    /\ CanCall(p)
    /\ \E n \in ImageRefs : StartCall(p, m, [NoArgs EXCEPT !.image = n])
    /\ IF cfg.UseCRI THEN Enter(p, "CRI.image") ELSE Enter(p, "Native.RunCmd")
    /\ UNCHANGED <<cfg, host>>

PullImageCall(p) == ImageCall(p, "PullImage")
PullImageRun(p) == NativeRun(p, "PullImage", PullArgv(args[p].image), "pull image docker")

RemoveImageCall(p) == ImageCall(p, "RemoveImage")
RemoveImageRun(p) ==
    NativeRun(p, "RemoveImage", RmiArgv(args[p].image), "remove image docker")

\* The CRI backend's pullCRIImage and removeCRIImage: one command of the
\* CRI client.
CRIImage(p) ==
    /\ pc[p] = "CRI.image"
    /\ \E ok \in BOOLEAN :
         /\ IssueCmd(p, <<"crictl", op[p], args[p].image>>, ok)
         /\ UNCHANGED <<cfg, host, op, args>>
         /\ IF ok THEN Return(p, Nil) ELSE Return(p, Err("crictl"))

\* ListContainersOptions: State, Name, Namespaces.
ContainerStates == {"All", "Running", "Paused"}
ListOptions ==
    { [NoArgs EXCEPT !.state = s, !.image = n, !.opts = ns] :
        s \in ContainerStates, n \in {"", "kube-apiserver"},
        ns \in {<<>>, <<"kube-system">>, <<"kube-system", "default">>} }

KubernetesContainerPrefix == "k8s_"

\* strings.Join(ns, "|")
JoinBar(ns) ==
    [i \in 1..(2 * Len(ns) - 1) |-> IF i % 2 = 1 THEN ns[(i + 1) \div 2] ELSE "|"]

ListArgv(o) ==
    <<"docker", "ps">>
      \o (CASE o.state = "All" -> <<"-a">>
            [] o.state = "Running" -> <<"--filter", "status=running">>
            [] o.state = "Paused" -> <<"--filter", "status=paused">>
            [] OTHER -> <<>>)
      \o <<"--filter=name=", KubernetesContainerPrefix, o.image>>
      \o (IF Len(o.opts) > 0 THEN <<".*_(">> \o JoinBar(o.opts) \o <<")_">> ELSE <<>>)
      \o <<"--format={{.ID}}">>

\* Outputs of the listing: lines split at "\n", the last one empty.
ListOutputs == {<<"">>, <<"c1", "">>, <<"c1", "c2", "">>}

NonEmpty(lines) == SelectSeq(lines, LAMBDA l : l # "")

ListContainersCall(p) ==
    /\ CanCall(p)
    /\ \E o \in ListOptions : StartCall(p, "ListContainers", o)
    /\ IF cfg.UseCRI THEN Enter(p, "CRI.list") ELSE Enter(p, "ListContainers.RunCmd")
    /\ UNCHANGED <<cfg, host>>

ListContainersRun(p) ==
    /\ pc[p] = "ListContainers.RunCmd"
    /\ \E ok \in BOOLEAN, lines \in ListOutputs :
         /\ IssueCmd(p, ListArgv(args[p]), ok)
         /\ UNCHANGED <<cfg, host, op, args>>
         /\ IF ok THEN ReturnValue(p, Nil, entry[p], NonEmpty(lines))
            ELSE ReturnValue(p, Err("docker"), entry[p], <<>>)

\* The CRI backend's listCRIContainers: the IDs the CRI client lists.
CRIList(p) ==
    /\ pc[p] = "CRI.list"
    /\ \E ok \in BOOLEAN, lines \in ListOutputs :
         /\ IssueCmd(p, <<"crictl", "ps", args[p].state, args[p].image>> \o args[p].opts, ok)
         /\ UNCHANGED <<cfg, host, op, args>>
         /\ IF ok THEN ReturnValue(p, Nil, entry[p], NonEmpty(lines))
            ELSE ReturnValue(p, Err("crictl"), entry[p], <<>>)

LogLens == {0, 5}

LogArgs ==
    { [NoArgs EXCEPT !.image = id, !.len = n, !.follow = f] :
        id \in ContainerIds, n \in LogLens, f \in BOOLEAN }

\* The command line ContainerLogCmd builds, as the sequence of its pieces.
LogCmd(a) ==
    <<"docker logs ">>
      \o (IF a.len > 0 THEN <<"--tail ", ToString(a.len), " ">> ELSE <<>>)
      \o (IF a.follow THEN <<"--follow ">> ELSE <<>>)
      \o <<a.image>>

ContainerLogCmdCall(p) ==
    /\ CanCall(p)
    /\ \E a \in LogArgs : StartCall(p, "ContainerLogCmd", a)
    /\ IF cfg.UseCRI THEN Enter(p, "CRI.logCmd") ELSE Enter(p, "ContainerLogCmd.build")
    /\ UNCHANGED <<cfg, host>>

ContainerLogCmdBuild(p) ==
    /\ pc[p] = "ContainerLogCmd.build"
    /\ UNCHANGED <<cfg, host, op, args, issued>>
    /\ ReturnValue(p, Nil, entry[p], LogCmd(args[p]))

\* The CRI backend's criContainerLogCmd: the command line of the CRI client.
CRILogCmd(p) ==
    /\ pc[p] = "CRI.logCmd"
    /\ UNCHANGED <<cfg, host, op, args, issued>>
    /\ ReturnValue(p, Nil, entry[p],
                   <<"crictl logs ">>
                     \o (IF args[p].len > 0 THEN <<"--tail ", ToString(args[p].len), " ">>
                         ELSE <<>>)
                     \o (IF args[p].follow THEN <<"--follow ">> ELSE <<>>)
                     \o <<args[p].image>>)

\* --------------------------------------------------------------------------
\* Docker.ListImages
\* --------------------------------------------------------------------------

\* Longest output of the listing command, in rows.
MaxRows == 2

ListImagesArgv == <<"docker", "images", "--no-trunc", "--format", "{{json .}}">>

\* A row of the output: empty, or text that json.Unmarshal accepts or
\* rejects; an accepted row has the four fields of dockerImage.  An ID is
\* the sequence of its algorithm prefix, if any, and its digest.
EmptyRow == [empty |-> TRUE, json |-> FALSE, ID |-> <<>>, Repository |-> <<>>,
             Tag |-> "", Size |-> ""]
Row(id, repository, tag, size) ==
    [empty |-> FALSE, json |-> TRUE, ID |-> id, Repository |-> repository,
     Tag |-> tag, Size |-> size]

Rows ==
    { EmptyRow,
      [EmptyRow EXCEPT !.empty = FALSE],
      Row(<<"sha256:", "0a1b">>, <<"nginx">>, "latest", "13.3kB"),
      Row(<<"2c3d">>, <<"myregistry.io", "app">>, "v1.2", "1GB"),
      Row(<<"sha256:", "4e5f">>, <<"myuser", "app">>, "<none>", "N/A") }

Outputs == SeqsUpTo(Rows, MaxRows)

\* units.FromHumanSize: the bytes of a size, or an error.
FromHumanSize(size) ==
    CASE size = "13.3kB" -> [ok |-> TRUE, bytes |-> 13300]
      [] size = "1GB" -> [ok |-> TRUE, bytes |-> 1000000000]
      [] OTHER -> [ok |-> FALSE, bytes |-> 0]

\* strings.TrimPrefix(id, "sha256:")
TrimSha256(id) == IF Len(id) > 1 /\ Head(id) = "sha256:" THEN Tail(id) ELSE id

\* A repository with its tag, "<repository>:<tag>": the tag is part of the
\* last segment and has no "/", so the segments are those of the repository.
RepoTag(repository, tag) == [name |-> repository, tag |-> tag]

\* addDockerIO of a tagged name.  A tag has no "/", so it is no segment that
\* addDockerIO looks at unless the name has one segment, which it does not
\* search for a dot.
addDockerIOTagged(rt) == [name |-> addDockerIO(rt.name), tag |-> rt.tag]

ListImage(row) ==
    [ID |-> TrimSha256(row.ID),
     RepoDigests |-> <<>>,
     RepoTags |-> <<addDockerIOTagged(RepoTag(row.Repository, row.Tag))>>,
     Size |-> ToString(FromHumanSize(row.Size).bytes)]

RECURSIVE ParseRows_SkipBad(_, _)
\* Mutant of ParseRows: a row that does not parse or convert is skipped.
ParseRows_SkipBad(rows, result) ==
    IF rows = <<>> THEN [err |-> Nil, result |-> result]
    ELSE LET img == Head(rows)
         IN  IF img.empty \/ ~img.json \/ ~FromHumanSize(img.Size).ok
             THEN ParseRows_SkipBad(Tail(rows), result)
             ELSE ParseRows_SkipBad(Tail(rows), Append(result, ListImage(img)))

RECURSIVE ParseRows(_, _)
\* The loop over the rows: the error of the first row that does not parse or
\* convert, with no result, else the records of the rows that are not empty.
ParseRows(rows, result) ==
    IF rows = <<>> THEN [err |-> Nil, result |-> result]
    ELSE LET img == Head(rows)
         IN  IF img.empty THEN ParseRows(Tail(rows), result)
             ELSE IF ~img.json
             THEN [err |-> Err("Image convert problem"), result |-> <<>>]
             ELSE IF ~FromHumanSize(img.Size).ok
             THEN [err |-> Err("Image size convert problem"), result |-> <<>>]
             ELSE ParseRows(Tail(rows), Append(result, ListImage(img)))

\* r.ListImages on a host whose listing prints rows.
ListImagesCall(p) ==
    /\ CanCall(p)
    /\ \E rows \in Outputs : StartCall(p, "ListImages", [NoArgs EXCEPT !.rows = rows])
    /\ Enter(p, "ListImages.RunCmd")
    /\ UNCHANGED <<cfg, host>>

ListImagesRun(p) ==
    /\ pc[p] = "ListImages.RunCmd"
    /\ \E ok \in BOOLEAN :
         /\ IssueCmd(p, ListImagesArgv, ok)
         /\ UNCHANGED <<cfg, host, op, args>>
         /\ IF ~ok THEN ReturnQuery(p, Err("docker images"), <<>>)
            ELSE LET parsed == ParseRows(args[p].rows, <<>>)
                 IN  ReturnQuery(p, parsed.err, parsed.result)

\* --------------------------------------------------------------------------
\* Initial states and the service-lifecycle specification
\* --------------------------------------------------------------------------

\* The two ways callers construct the adapter: with the internal shim
\* (no CRI service) and with cri-dockerd in front of it.
Configs ==
    { [Socket |-> "", UseCRI |-> FALSE, CRIService |-> "",
       KubernetesVersion |-> Version(1, 23, 0, FALSE)],
      [Socket |-> ExternalDockerCRISocket, UseCRI |-> TRUE, CRIService |-> CRISocketUnit,
       KubernetesVersion |-> Version(1, 24, 0, FALSE)] }

AllSame == [units |-> TRUE, files |-> TRUE, others |-> TRUE, images |-> TRUE,
            refStore |-> TRUE]

NoCall == [op |-> "none", args |-> NoArgs, ret |-> Running, clean |-> TRUE,
           same |-> AllSame, repeat |-> FALSE,
           prev |-> [op |-> "none", nil |-> FALSE, clean |-> TRUE]]

InitCallers(n) ==
    /\ op = [p \in Procs |-> "none"]
    /\ args = [p \in Procs |-> NoArgs]
    /\ pc = [p \in Procs |-> "idle"]
    /\ issued = [p \in Procs |-> <<>>]
    /\ ret = [p \in Procs |-> Running]
    /\ entry = [p \in Procs |-> NoHost]
    /\ left = n
    /\ last = NoCall
    /\ out = [p \in Procs |-> NoOut]
    /\ overlapped = FALSE
    /\ start = NoHost.units

\* The host starts in any state of docker.service, docker.socket and the shim.
Init ==
    /\ cfg \in Configs
    /\ \E m, a, se, sa, ce, ca \in BOOLEAN :
         units = [u \in Units |->
                    IF u = DockerService THEN [masked |-> m, enabled |-> FALSE, active |-> a]
                    ELSE IF u = DockerSocket THEN [masked |-> FALSE, enabled |-> se, active |-> sa]
                    ELSE IF u = CRISocketUnit THEN [masked |-> FALSE, enabled |-> ce, active |-> ca]
                    ELSE Off]
    /\ files = [f \in Paths |-> Absent]
    /\ others = "active"
    /\ images = {}
    /\ refStore = "none"
    /\ InitCallers(MaxCalls)

EnableSteps(p) ==
    \/ EnableCall(p)
    \/ EnableDisableOthers(p)
    \/ EnablePopulateCRIConfig(p)
    \/ EnableUnmask(p)
    \/ EnableSocket(p)
    \/ EnableForceSystemd(p)
    \/ EnableRestart(p)
    \/ EnableCRI(p)
    \/ EnableStartCRI(p)

DisableSteps(p) ==
    \/ DisableCall(p)
    \/ DisableStopCRI(p)
    \/ DisableCRI(p)
    \/ DisableForceStopSocket(p)
    \/ DisableForceStopService(p)
    \/ DisableSocket(p)
    \/ DisableMask(p)

NetworkPluginSteps(p) ==
    \/ ConfigureNetworkPluginCall(p)
    \/ NetMkdir(p)
    \/ NetCopy(p)
    \/ NetRestart(p)

BulkSteps(p) ==
    \/ KillContainersCall(p)
    \/ KillContainersRun(p)
    \/ StopContainersCall(p)
    \/ StopContainersRun(p)
    \/ PauseContainersCall(p)
    \/ PauseContainersRun(p)
    \/ UnpauseContainersCall(p)
    \/ UnpauseContainersRun(p)
    \/ CRIBulk(p)

Next ==
    \/ EnableSteps(1)
    \/ DisableSteps(1)

Spec == Init /\ [][Next]_vars

\* The host of the specifications that do not vary the units: all of them
\* off; n calls may be made.
InitQuiet(n) ==
    /\ cfg \in Configs
    /\ units = [u \in Units |-> Off]
    /\ files = [f \in Paths |-> Absent]
    /\ others = "active"
    /\ images = {}
    /\ refStore = "none"
    /\ InitCallers(n)

PreloadSteps(p) ==
    \/ PreloadCall(p)
    \/ PreloadImagesPreloaded(p)
    \/ PreloadSave(p)
    \/ PreloadWhichLz4(p)
    \/ PreloadNewFileAsset(p)
    \/ PreloadCopy(p)
    \/ PreloadExtract(p)
    \/ PreloadRemove(p)
    \/ PreloadSaveAgain(p)
    \/ PreloadUpdate(p)
    \/ PreloadRestart(p)

\* The image sets a host may hold before the first call.
HostImages ==
    { {}, {ImgA}, {DockerIO(Library(ImgA)), DockerIO(Library(ImgB)), ImgC} }

\* The native adapter, which Preload does not read.
NativeConfig == [Socket |-> "", UseCRI |-> FALSE, CRIService |-> "",
                 KubernetesVersion |-> Version(1, 23, 0, FALSE)]

\* The host starts with any of these images.
InitPreload ==
    /\ cfg = NativeConfig
    /\ units = [u \in Units |-> Off]
    /\ files = [f \in Paths |-> Absent]
    /\ others = "active"
    /\ images \in HostImages
    /\ refStore = "none"
    /\ InitCallers(MaxCalls)

NextPreload == PreloadSteps(1)

SpecPreload == InitPreload /\ [][NextPreload]_vars

\* Enable, Disable and Preload against a host that starts quiet.
NextLifecycle ==
    \/ EnableSteps(1)
    \/ DisableSteps(1)
    \/ PreloadSteps(1)

SpecLifecycle == InitQuiet(MaxLifecycleCalls) /\ [][NextLifecycle]_vars

NextNet == NetworkPluginSteps(1)

SpecNet == InitQuiet(MaxCalls) /\ [][NextNet]_vars

NextBulk == BulkSteps(1)

SpecBulk == InitQuiet(MaxCalls) /\ [][NextBulk]_vars

\* --------------------------------------------------------------------------
\* The specification of the queries
\* --------------------------------------------------------------------------

\* Kubernetes versions around the one that needs the external shim.
KubernetesVersions ==
    { Version(0, 30, 0, FALSE), Version(1, 23, 0, FALSE), Version(1, 23, 5, FALSE),
      Version(1, 24, 0, TRUE), Version(1, 24, 0, FALSE), Version(1, 25, 1, TRUE),
      Version(2, 0, 0, FALSE) }

\* The adapter as a caller may construct it: the fields are independent.
QueryConfigs ==
    { [Socket |-> s, UseCRI |-> c, CRIService |-> IF c THEN CRISocketUnit ELSE "",
       KubernetesVersion |-> v] :
        s \in {"", ExternalDockerCRISocket}, c \in BOOLEAN, v \in KubernetesVersions }

InitQuery ==
    /\ cfg \in QueryConfigs
    /\ units = [u \in Units |-> Off]
    /\ files = [f \in Paths |-> Absent]
    /\ others = "active"
    /\ images = {}
    /\ refStore = "none"
    /\ InitCallers(MaxQueryCalls)

QuerySteps(p) ==
    \/ AvailableCall(p)
    \/ AvailableLookPath(p)
    \/ KubeletOptionsCall(p)
    \/ KubeletOptionsReturn(p)

NextQuery == QuerySteps(1)

SpecQuery == InitQuery /\ [][NextQuery]_vars

\* The specification of the image listing and of the names it reports.
ImageSteps(p) ==
    \/ addDockerIOCall(p)
    \/ addDockerIOReturn(p)
    \/ ListImagesCall(p)
    \/ ListImagesRun(p)

NextImages == ImageSteps(1)

InitImages ==
    /\ cfg = NativeConfig
    /\ units = [u \in Units |-> Off]
    /\ files = [f \in Paths |-> Absent]
    /\ others = "active"
    /\ images = {}
    /\ refStore = "none"
    /\ InitCallers(MaxQueryCalls)

SpecImages == InitImages /\ [][NextImages]_vars

\* --------------------------------------------------------------------------
\* The specification of the image and container operations
\* --------------------------------------------------------------------------

\* Adapters that differ in Socket and in UseCRI only.
OpsConfigs == {c \in QueryConfigs : c.KubernetesVersion = Version(1, 24, 0, FALSE)}

InitOps ==
    /\ cfg \in OpsConfigs
    /\ units = [u \in Units |-> Off]
    /\ files = [f \in Paths |-> Absent]
    /\ others = "active"
    /\ images = {}
    /\ refStore = "none"
    /\ InitCallers(MaxQueryCalls)

NativeSteps(p) ==
    \/ VersionCall(p)
    \/ VersionRun(p)
    \/ CGroupDriverCall(p)
    \/ CGroupDriverRun(p)
    \/ LoadImageCall(p)
    \/ LoadImageRun(p)
    \/ SaveImageCall(p)
    \/ SaveImageRun(p)
    \/ TagImageCall(p)
    \/ TagImageRun(p)
    \/ PushImageCall(p)
    \/ PushImageRun(p)
    \/ BuildImageCall(p)
    \/ BuildImageBuild(p)
    \/ BuildImagePush(p)

DelegatingSteps(p) ==
    \/ PullImageCall(p)
    \/ PullImageRun(p)
    \/ RemoveImageCall(p)
    \/ RemoveImageRun(p)
    \/ CRIImage(p)
    \/ ListContainersCall(p)
    \/ ListContainersRun(p)
    \/ CRIList(p)
    \/ ContainerLogCmdCall(p)
    \/ ContainerLogCmdBuild(p)
    \/ CRILogCmd(p)

NextOps ==
    \/ NativeSteps(1)
    \/ DelegatingSteps(1)
    \/ BulkSteps(1)

SpecOps == InitOps /\ [][NextOps]_vars

\* --------------------------------------------------------------------------
\* The specification of two concurrent callers
\* --------------------------------------------------------------------------

\* Each caller makes one call, Enable or Disable, at any time; the steps of
\* the two calls interleave at the calls to the service manager and the
\* runner.  start keeps the units the callers found: a fresh host, one
\* after Disable, one after Enable, one with docker.socket listening.
ConcStarts ==
    LET On == [masked |-> FALSE, enabled |-> TRUE, active |-> TRUE]
        Masked == [masked |-> TRUE, enabled |-> FALSE, active |-> FALSE]
        Started == [masked |-> FALSE, enabled |-> FALSE, active |-> TRUE]
    IN  { [u \in Units |-> Off],
          [u \in Units |-> IF u = DockerService THEN Masked ELSE Off],
          [u \in Units |-> IF u = DockerService THEN Started
                           ELSE IF u = CRIDockerUnit THEN Off ELSE On],
          [u \in Units |-> IF u = DockerSocket THEN Started ELSE Off] }

InitConc ==
    /\ cfg \in Configs
    /\ units \in ConcStarts
    /\ files = [f \in Paths |-> Absent]
    /\ others = "active"
    /\ images = {}
    /\ refStore = "none"
    /\ op = [p \in Procs |-> "none"]
    /\ args = [p \in Procs |-> NoArgs]
    /\ pc = [p \in Procs |-> "idle"]
    /\ issued = [p \in Procs |-> <<>>]
    /\ ret = [p \in Procs |-> Running]
    /\ entry = [p \in Procs |-> NoHost]
    /\ left = Cardinality(Procs)
    /\ last = NoCall
    /\ out = [p \in Procs |-> NoOut]
    /\ overlapped = FALSE
    /\ start = units

\* The caller has made no call yet, or its call runs.
FirstCall(p) == op[p] = "none" \/ pc[p] # "idle"

NextConc ==
    \/ \E p \in Procs : FirstCall(p) /\ EnableSteps(p)
    \/ \E p \in Procs : FirstCall(p) /\ DisableSteps(p)

SpecConc == InitConc /\ [][NextConc]_vars

\* --------------------------------------------------------------------------
\* Properties of Enable and Disable
\* --------------------------------------------------------------------------

Name(o, t) == [op |-> o, target |-> t]

\* The steps of a log without their outcomes.
Names(log) == [i \in 1..Len(log) |-> Name(log[i].op, log[i].target)]

IsPrefix(s, t) == Len(s) <= Len(t) /\ \A i \in 1..Len(s) : s[i] = t[i]

\* The steps of a complete Enable, in the order of the claim.
EnableOrder(a, c) ==
    (IF a.disOthers THEN <<Name("disableOthers", "")>> ELSE <<>>)
    \o <<Name("populateCRIConfig", CRIConfigFile),
         Name("Init.Unmask", DockerService),
         Name("Init.Enable", DockerSocket)>>
    \o (IF a.forceSystemd THEN <<Name("Runner.Copy", DaemonConfigFile)>> ELSE <<>>)
    \o <<Name("Init.Restart", DockerService)>>
    \o (IF c.CRIService /= ""
          THEN <<Name("Init.Enable", c.CRIService), Name("Init.Start", c.CRIService)>>
          ELSE <<>>)

\* The steps of a complete Disable, in the order of the claim.
DisableOrder(c) ==
    (IF c.CRIService /= ""
       THEN <<Name("Init.Stop", c.CRIService), Name("Init.Disable", c.CRIService)>>
       ELSE <<>>)
    \o <<Name("Init.ForceStop", DockerSocket),
         Name("Init.ForceStop", DockerService),
         Name("Init.Disable", DockerSocket),
         Name("Init.Mask", DockerService)>>

\* The steps of Enable and Disable whose failure the claims call fatal.
EnableFatal(s) ==
    Name(s.op, s.target) \notin {Name("disableOthers", ""), Name("Init.Enable", DockerSocket)}

DisableFatal(s) ==
    Name(s.op, s.target) \notin {Name("Init.ForceStop", DockerSocket),
                                 Name("Init.Disable", DockerSocket)}

Returned(p) == pc[p] = "idle" /\ op[p] /= "none"

\* C1: an Enable without inUserNamespace issues its steps in the order
\* disableOthers (if asked), CRI configuration, Unmask docker.service, Enable
\* docker.socket, daemon configuration (if forceSystemd), Restart docker,
\* Enable and Start of the configured shim; a failed CRI configuration,
\* Unmask, daemon configuration, Restart or shim Enable/Start is the last
\* step of the call, which returns that step's error; a call that returns
\* nil issued the whole order, so the shim is enabled or started only after
\* a successful restart.
C1_EnableOrder ==
    \A p \in Procs :
      (op[p] = "Enable" /\ ~args[p].inUserNamespace) =>
        LET log == issued[p]
            ord == EnableOrder(args[p], cfg)
        IN  /\ IsPrefix(Names(log), ord)
            /\ \A i \in 1..Len(log) :
                 (~log[i].ok /\ EnableFatal(log[i])) =>
                   /\ i = Len(log)
                   /\ pc[p] = "idle"
                   /\ ret[p] = Err(log[i].op)
            /\ (pc[p] = "idle" /\ ret[p] = Nil) => Names(log) = ord
            /\ pc[p] = "idle" =>
                 \/ ret[p] = Nil
                 \/ /\ log /= <<>>
                    /\ ~log[Len(log)].ok
                    /\ EnableFatal(log[Len(log)])
            /\ \A i \in 1..Len(log) :
                 (cfg.CRIService /= "" /\ log[i].target = cfg.CRIService) =>
                   \E j \in 1..(i - 1) :
                     log[j] = StepRec("Init.Restart", DockerService, TRUE)

\* C1 witness: an Enable with disableOthers and forceSystemd and a shim
\* configured failed at the restart, after six steps.
C1_Witness ==
    /\ Returned(1) /\ op[1] = "Enable"
    /\ args[1].disOthers /\ args[1].forceSystemd /\ cfg.CRIService /= ""
    /\ Len(issued[1]) = 6
    /\ issued[1][6] = StepRec("Init.Restart", DockerService, FALSE)
    /\ ret[1] = Err("Init.Restart")

\* C2: a Disable issues its steps in the order Stop and Disable of the
\* configured shim, ForceStop docker.socket, ForceStop docker.service,
\* Disable docker.socket, Mask docker.service; a failed shim Stop, shim
\* Disable or ForceStop docker.service is the last step of the call, which
\* returns that error, so Mask is issued only after a successful ForceStop
\* of docker.service; a Disable that reaches Mask returns Mask's result.
C2_DisableOrder ==
    \A p \in Procs :
      op[p] = "Disable" =>
        LET log == issued[p]
            ord == DisableOrder(cfg)
        IN  /\ IsPrefix(Names(log), ord)
            /\ \A i \in 1..Len(log) :
                 (~log[i].ok /\ DisableFatal(log[i])) =>
                   /\ i = Len(log)
                   /\ pc[p] = "idle"
                   /\ ret[p] = Err(log[i].op)
            /\ \A i \in 1..Len(log) :
                 Names(log)[i] = Name("Init.Mask", DockerService) =>
                   /\ \E j \in 1..(i - 1) :
                        log[j] = StepRec("Init.ForceStop", DockerService, TRUE)
                   /\ pc[p] = "idle"
                   /\ ret[p] = (IF log[i].ok THEN Nil ELSE Err("Init.Mask"))
            /\ (pc[p] = "idle" /\ ret[p] = Nil) => Names(log) = ord
            /\ pc[p] = "idle" => ret[p].kind /= "none"

\* C2 witness: a Disable with a shim configured stopped at a failed ForceStop
\* of docker.service, the socket's ForceStop having failed before it.
C2_Witness ==
    /\ Returned(1) /\ op[1] = "Disable" /\ cfg.CRIService /= ""
    /\ Len(issued[1]) = 4
    /\ ~issued[1][3].ok
    /\ issued[1][4] = StepRec("Init.ForceStop", DockerService, FALSE)
    /\ ret[1] = Err("Init.ForceStop")

\* The units and files a successful Enable is meant to leave.
EnabledState(a, c) ==
    /\ ~units[DockerService].masked /\ units[DockerService].active
    /\ units[DockerSocket].enabled
    /\ c.CRIService /= "" =>
         units[c.CRIService].enabled /\ units[c.CRIService].active
    /\ files[CRIConfigFile] = CRIConfig(SocketPath(c))
    /\ a.forceSystemd => files[DaemonConfigFile] = DaemonConfig

\* The last two calls were Enable with the same arguments and both returned nil.
EnableTwice ==
    /\ last.op = "Enable" /\ last.ret = Nil
    /\ last.prev.op = "Enable" /\ last.prev.nil
    /\ last.repeat

C10_UserNamespace ==
    /\ \A p \in Procs :
         (op[p] = "Enable" /\ args[p].inUserNamespace) =>
           /\ pc[p] = "idle"
           /\ issued[p] = <<>>
           /\ ret[p].kind = "error"
    /\ (last.op = "Enable" /\ last.args.inUserNamespace) => last.same = AllSame

\* C10 witness: such a call, with both other flags set, has returned.
C10_Witness ==
    /\ Returned(1) /\ op[1] = "Enable" /\ last.op = "Enable"
    /\ args[1].disOthers /\ args[1].forceSystemd /\ args[1].inUserNamespace
    /\ last.args = args[1]
    /\ ret[1].kind = "error"

\* --------------------------------------------------------------------------
\* Properties of Preload
\* --------------------------------------------------------------------------

\* TRUE iff some step before the i-th of the log is s.
Before(log, i, s) == \E j \in 1..(i - 1) : log[j] = s

CopyStep(ok) == StepRec("Runner.Copy", PreloadDest, ok)
RemoveStep == Name("Runner.Remove", PreloadDest)
RestartStep(ok) == StepRec("Init.Restart", DockerService, ok)

\* TRUE iff every expected name, without its default-registry prefix, is
\* the name of one of the images imgs.
AllPresent(imgs, expected) ==
    \A k \in 1..Len(expected) :
      \E i \in imgs : TrimDockerIO(i) = TrimDockerIO(expected[k])

\* The call of p is a Preload that went past the membership check.
ExtractionNeeded(p) == op[p] = "Preload" /\ Len(issued[p]) > 1

\* C4: in a Preload that needs extraction, a failed staging is the last
\* step and the call returns an error; the extraction is issued only after
\* a successful staging, and when it fails it is the last step and the call
\* returns an error; the restart is issued only after a successful
\* extraction; the call returns nil only if its last step is a successful
\* restart.
C4_PreloadFatalSteps ==
    \A p \in Procs :
      ExtractionNeeded(p) =>
        LET log == issued[p]
        IN  /\ \A i \in 1..Len(log) :
                 /\ log[i] = CopyStep(FALSE) =>
                      i = Len(log) /\ pc[p] = "idle" /\ ret[p] = Err("copying file")
                 /\ log[i] = CmdRec(TarCmd, FALSE) =>
                      i = Len(log) /\ pc[p] = "idle" /\ ret[p] = Err("extracting tarball")
                 /\ log[i].argv = TarCmd => Before(log, i, CopyStep(TRUE))
                 /\ Names(log)[i] = Name("Init.Restart", DockerService) =>
                      /\ Before(log, i, CmdRec(TarCmd, TRUE))
                      /\ i = Len(log) /\ pc[p] = "idle"
                      /\ ret[p] = (IF log[i].ok THEN Nil ELSE Err("Init.Restart"))
            /\ (pc[p] = "idle" /\ ret[p] = Nil) => log[Len(log)] = RestartStep(TRUE)

\* C4 witness: a Preload staged the bundle and returned the error of a
\* failed extraction.
C4_Witness ==
    /\ Returned(1) /\ ExtractionNeeded(1)
    /\ Before(issued[1], Len(issued[1]), CopyStep(TRUE))
    /\ issued[1][Len(issued[1])] = CmdRec(TarCmd, FALSE)
    /\ ret[1] = Err("extracting tarball")

\* The images the host held when the running or just-returned Preload of p
\* listed them: the listing is the first step, and nothing before the
\* extraction changes the images.
ImagesAtCheck(p) == IF pc[p] = "idle" THEN images ELSE entry[p].images

\* The Preload of p has issued its listing command and nothing after the
\* extraction yet.
AtCheck(p) ==
    /\ op[p] = "Preload" /\ issued[p] /= <<>>
    /\ \A i \in 1..Len(issued[p]) : issued[p][i].argv /= TarCmd

\* The Preload of p was found preloaded: it returned nil after the listing.
Skipped(p) == pc[p] = "idle" /\ ret[p] = Nil /\ Len(issued[p]) = 1

\* C5 as stated: when every expected image is among the present ones the
\* Preload returns nil after the listing, with no other step; when one is
\* absent it goes on towards the extraction; the Preload after a successful
\* one with the same configuration goes no further than the listing.
C5_AsStated ==
    \A p \in Procs :
      /\ AtCheck(p) =>
           (AllPresent(ImagesAtCheck(p), args[p].cc.expected) <=> Skipped(p))
      /\ (op[p] = "Preload" /\ last.op = "Preload" /\ last.ret = Nil
            /\ (IF pc[p] = "idle" THEN last.repeat /\ last.prev.nil /\ last.prev.op = "Preload"
                                  ELSE last.args = args[p]))
           => Len(issued[p]) <= 1

\* C5: when the listing command succeeds and every expected image is among
\* the present ones, names compared without the default-registry prefix,
\* the Preload returns nil after the listing, with no other step; when the
\* listing fails or one image is absent it goes on towards the extraction.
\* So a Preload that finds every expected image still present and whose
\* listing succeeds issues nothing but the listing, also after a successful
\* Preload.
C5_MembershipCheck ==
    \A p \in Procs :
      AtCheck(p) =>
        /\ (issued[p][1].ok /\ AllPresent(ImagesAtCheck(p), args[p].cc.expected))
             <=> Skipped(p)
        /\ ~Skipped(p) => (pc[p] /= "idle" \/ Len(issued[p]) > 1)
        /\ issued[p][1].argv = ImagesCmd

\* C5 witness: the second of two Preloads with the same configuration was
\* found preloaded; the first returned nil with a failed step, so it had
\* gone on to extract the bundle.
C5_Witness ==
    /\ op[1] = "Preload" /\ Skipped(1)
    /\ last.repeat /\ last.prev.op = "Preload" /\ last.prev.nil
    /\ ~last.prev.clean
    /\ args[1].cc.expected = <<ImgA, ImgB>>
    /\ DockerIO(Library(ImgB)) \in images /\ ImgC \in images

\* C6: when "which lz4" fails, the Preload returns ErrISOFeature "lz4" and
\* that command is its last step; only the listing and the reference-store
\* save precede it: no copy, no extraction, no removal, no restart.  No
\* other failure yields ErrISOFeature.
C6_MissingLz4 ==
    \A p \in Procs :
      op[p] = "Preload" =>
        LET log == issued[p]
        IN  /\ \A i \in 1..Len(log) :
                 log[i] = CmdRec(WhichLz4Cmd, FALSE) =>
                   /\ i = Len(log) /\ pc[p] = "idle"
                   /\ ret[p] = NewErrISOFeature("lz4")
                   /\ \A j \in 1..Len(log) :
                        /\ log[j].op \notin {"Runner.Copy", "Runner.Remove", "Init.Restart"}
                        /\ log[j].argv /= TarCmd
            /\ ret[p].kind = "ErrISOFeature" =>
                 /\ ret[p].msg = "lz4"
                 /\ log /= <<>> /\ log[Len(log)] = CmdRec(WhichLz4Cmd, FALSE)
            /\ \A i \in 1..Len(log) :
                 log[i].op \in {"Runner.Copy", "Runner.Remove"} =>
                   Before(log, i, CmdRec(WhichLz4Cmd, TRUE))

\* C6 witness: a Preload returned ErrISOFeature "lz4".
C6_Witness ==
    /\ Returned(1) /\ op[1] = "Preload"
    /\ ret[1] = NewErrISOFeature("lz4")
    /\ files[PreloadDest] = Absent

\* --------------------------------------------------------------------------
\* Properties of the bulk container methods
\* --------------------------------------------------------------------------

BulkMethods == {"KillContainers", "StopContainers", "PauseContainers", "UnpauseContainers"}

\* TRUE iff every element of ids is an element of argv.
Covers(argv, ids) == \A k \in 1..Len(ids) : \E j \in 1..Len(argv) : argv[j] = ids[k]

\* C7: a bulk method called with an empty list issues no command and
\* returns nil; called with a non-empty list it issues, once it has
\* returned, exactly one command, whose arguments hold every ID of the
\* list, and it returns an error exactly when that command failed.
C7_BulkOneCommand ==
    \A p \in Procs :
      op[p] \in BulkMethods =>
        LET log == issued[p]
            ids == args[p].ids
        IN  /\ Len(log) <= 1
            /\ \A i \in 1..Len(log) : log[i].op = "RunCmd" /\ Covers(log[i].argv, ids)
            /\ ids = <<>> => log = <<>>
            /\ pc[p] = "idle" =>
                 /\ ids = <<>> => ret[p] = Nil
                 /\ ids /= <<>> =>
                      /\ Len(log) = 1
                      /\ ret[p].kind = (IF log[1].ok THEN "nil" ELSE "error")

\* C7 witness: a native KillContainers over two IDs returned the error of
\* its one command.
C7_Witness ==
    /\ Returned(1) /\ op[1] = "KillContainers" /\ ~cfg.UseCRI
    /\ Len(args[1].ids) = 2 /\ args[1].ids[1] /= args[1].ids[2]
    /\ Len(issued[1]) = 1 /\ ~issued[1][1].ok
    /\ ret[1] = Err("killing containers docker")

\* --------------------------------------------------------------------------
\* Properties of dockerConfigureNetworkPlugin
\* --------------------------------------------------------------------------

ConfCopy(ok) == StepRec("Runner.Copy", CRIDockerServiceConfFile, ok)

\* TRUE iff the content has a line for the flag, with the value if one is given.
HasFlag(content, flag) == \E i \in 1..Len(content) : content[i][1] = flag

\* The number of steps of the log that satisfy Is.
Count(log, Is(_)) == Cardinality({i \in 1..Len(log) : Is(log[i])})

IsWrite(s) == s.op = "Runner.Copy"
IsRestart(s) == s.op = "Init.Restart"

\* C8: with plugin "" the configurator issues nothing, changes nothing and
\* returns nil.  With "cni" it writes at most one file, the override file,
\* whose content has the flags --cni-bin-dir, --cni-cache-dir,
\* --cni-conf-dir and --hairpin-mode=promiscuous-bridge; it restarts the
\* shim service only right after that write succeeded, once, and a call
\* that returns nil made exactly that write and that restart.  A failed
\* directory creation or write is the last step and the call returns its
\* error; a call that fails to render the template issued nothing.
C8_NetworkPlugin ==
    \A p \in Procs :
      op[p] = "ConfigureNetworkPlugin" =>
        LET log == issued[p]
            np == args[p].networkPlugin
        IN  /\ np = "" =>
                 /\ pc[p] = "idle" /\ log = <<>> /\ ret[p] = Nil
                 /\ last.op = op[p] => last.same = AllSame
            /\ IsPrefix(Names(log), <<Name("RunCmd", "sudo"),
                                      Name("Runner.Copy", CRIDockerServiceConfFile),
                                      Name("Init.Restart", CRIDockerUnit)>>)
            /\ \A i \in 1..Len(log) :
                 /\ (~log[i].ok /\ log[i].op = "RunCmd") =>
                      i = Len(log) /\ pc[p] = "idle"
                        /\ ret[p] = Err("failed to create directory")
                 /\ log[i] = ConfCopy(FALSE) =>
                      i = Len(log) /\ pc[p] = "idle"
                        /\ ret[p] = Err("failed to copy template")
                 /\ log[i] = ConfCopy(TRUE) =>
                      LET content == files[CRIDockerServiceConfFile]
                      IN  /\ content = CRIDockerServiceConf(np)
                          /\ np = "cni" =>
                               /\ HasFlag(content, "--cni-bin-dir")
                               /\ HasFlag(content, "--cni-cache-dir")
                               /\ HasFlag(content, "--cni-conf-dir")
                               /\ <<"--hairpin-mode", "promiscuous-bridge">>
                                    \in {content[k] : k \in 1..Len(content)}
                 /\ IsRestart(log[i]) =>
                      /\ i > 1 /\ log[i - 1] = ConfCopy(TRUE)
                      /\ pc[p] = "idle"
                      /\ ret[p] = (IF log[i].ok THEN Nil ELSE Err("Init.Restart"))
            /\ (pc[p] = "idle" /\ ret[p] = Nil /\ np /= "") =>
                 Count(log, IsWrite) = 1 /\ Count(log, IsRestart) = 1
            /\ ret[p] = Err("failed to execute template") => log = <<>>

\* C8 witness: a call with plugin "cni" wrote the override file, restarted
\* the shim service and returned nil.
C8_Witness ==
    /\ Returned(1) /\ op[1] = "ConfigureNetworkPlugin"
    /\ args[1].networkPlugin = "cni" /\ ret[1] = Nil
    /\ Len(issued[1]) = 3
    /\ units[CRIDockerUnit].active

\* --------------------------------------------------------------------------
\* Best-effort steps
\* --------------------------------------------------------------------------

\* The steps of a complete Preload that needs extraction.
PreloadOrder ==
    <<Name("RunCmd", "docker"), Name("refStore.Save", ""), Name("RunCmd", "which"),
      Name("assets.NewFileAsset", ""), Name("Runner.Copy", PreloadDest),
      Name("RunCmd", "sudo"), RemoveStep, Name("refStore.Save", ""),
      Name("refStore.Update", ""), Name("Init.Restart", DockerService)>>

\* The best-effort steps of the claim, per method.
BestEffort(m, s) ==
    LET n == Name(s.op, s.target)
    IN  \/ m = "Enable" /\ n \in {Name("disableOthers", ""), Name("Init.Enable", DockerSocket)}
        \/ m = "Disable" /\ n \in {Name("Init.ForceStop", DockerSocket),
                                   Name("Init.Disable", DockerSocket)}
        \/ m = "Preload" /\ n \in {Name("refStore.Save", ""), Name("refStore.Update", ""),
                                   RemoveStep}

\* The order of the steps of the call of p.
OrderOf(p) ==
    IF op[p] = "Enable" THEN EnableOrder(args[p], cfg)
    ELSE IF op[p] = "Disable" THEN DisableOrder(cfg)
    ELSE PreloadOrder

\* The steps whose failure a method does not return: the best-effort steps
\* and the image listing of Preload, whose failure counts as "not preloaded".
NotReturned(m, s) == BestEffort(m, s) \/ (m = "Preload" /\ s.argv = ImagesCmd)

\* C9: whether a best-effort step of Enable, Disable or Preload fails or
\* succeeds, the call goes on with the step that follows it in the method's
\* order, and the call returns nil exactly when none of its steps failed
\* but best-effort ones (and the image listing of Preload): the failure of
\* a best-effort step is not returned.
C9_BestEffort ==
    \A p \in Procs :
      op[p] \in {"Enable", "Disable", "Preload"} =>
        LET log == issued[p]
        IN  /\ \A i \in 1..Len(log) :
                 BestEffort(op[p], log[i]) =>
                   /\ i = Len(log) => pc[p] /= "idle"
                   /\ i < Len(log) =>
                        /\ i + 1 <= Len(OrderOf(p))
                        /\ Names(log)[i + 1] = OrderOf(p)[i + 1]
            /\ (pc[p] = "idle" /\ log /= <<>>) =>
                 (ret[p] = Nil <=>
                    \A j \in 1..Len(log) : ~log[j].ok => NotReturned(op[p], log[j]))

\* C9 witness: a Preload returned nil although the removal of the staged
\* bundle and the update of the reference store failed.
C9_Witness ==
    /\ Returned(1) /\ op[1] = "Preload" /\ ret[1] = Nil
    /\ \E i \in 1..Len(issued[1]) : issued[1][i] = StepRec("Runner.Remove", PreloadDest, FALSE)
    /\ \E i \in 1..Len(issued[1]) : issued[1][i] = StepRec("refStore.Update", "", FALSE)

\* --------------------------------------------------------------------------
\* Properties of the queries
\* --------------------------------------------------------------------------

\* TRUE iff v is major.minor.0 or newer in semantic-version order.
AtLeast(v, major, minor) == GTE(v, Version(major, minor, 0, FALSE))

Resolves(file) == file \in args[1].path

\* C11: with a Kubernetes version of at least 1.24 Available fails whenever
\* cri-dockerd does not resolve, whatever else resolves, and succeeds only
\* when cri-dockerd, dockerd and docker all resolve; with an older version
\* it succeeds exactly when docker resolves.
C11_Available ==
    (Returned(1) /\ op[1] = "Available") =>
        IF AtLeast(cfg.KubernetesVersion, 1, 24)
        THEN /\ ~Resolves("cri-dockerd") => ret[1] # Nil
             /\ ret[1] = Nil <=> \A b \in Binaries : Resolves(b)
        ELSE ret[1] = Nil <=> Resolves("docker")

C11_Witness ==
    /\ Returned(1) /\ op[1] = "Available"
    /\ AtLeast(cfg.KubernetesVersion, 1, 24)
    /\ args[1].path = {"dockerd", "docker"}
    /\ ret[1] = Err("cri-dockerd")

\* C12: KubeletOptions returns exactly the four keys container-runtime =
\* remote, container-runtime-endpoint and image-service-endpoint = the
\* socket path, runtime-request-timeout = 15m when UseCRI is set, and
\* exactly the key container-runtime otherwise; the socket path is the
\* Socket field when it is not empty and the default socket otherwise; the
\* call issues no step and leaves the host as it was.
C12_KubeletOptions ==
    (Returned(1) /\ op[1] = "KubeletOptions") =>
        /\ issued[1] = <<>>
        /\ last.same = AllSame
        /\ IF cfg.UseCRI
           THEN /\ DOMAIN out[1] = {"container-runtime", "container-runtime-endpoint",
                                    "image-service-endpoint", "runtime-request-timeout"}
                /\ out[1]["container-runtime"] = "remote"
                /\ out[1]["runtime-request-timeout"] = "15m"
                /\ \A k \in {"container-runtime-endpoint", "image-service-endpoint"} :
                     out[1][k] = IF cfg.Socket = "" THEN "/var/run/dockershim.sock"
                                 ELSE cfg.Socket
           ELSE /\ DOMAIN out[1] = {"container-runtime"}
                /\ out[1]["container-runtime"] = "docker"

C12_Witness ==
    /\ Returned(1) /\ op[1] = "KubeletOptions"
    /\ cfg.UseCRI /\ cfg.Socket = ""
    /\ out[1]["image-service-endpoint"] = InternalDockerCRISocket

NativeOnly ==
    {"Version", "CGroupDriver", "BuildImage", "PushImage", "SaveImage", "LoadImage",
     "TagImage"}

Delegating ==
    {"PullImage", "RemoveImage", "ListContainers", "ContainerLogCmd"} \cup BulkMethods

\* The statements of the CRI backend.
CRIPcs == {"CRI.image", "CRI.list", "CRI.logCmd", "CRI.bulk"}

\* A command of the native engine: docker, or a shell pipeline with docker.
IsNative(s) == s.op = "RunCmd" /\ s.argv[1] \in {"docker", "/bin/bash"}

Argvs(log) == [i \in 1..Len(log) |-> log[i].argv]

\* The native commands of a native-only method, from its arguments alone.
NativeCommands(m, a) ==
    CASE m = "Version" -> <<VersionArgv>>
      [] m = "CGroupDriver" -> <<CGroupDriverArgv>>
      [] m = "LoadImage" -> <<LoadArgv(a.file)>>
      [] m = "SaveImage" -> <<SaveArgv(a.image, a.file)>>
      [] m = "TagImage" -> <<TagArgv(a.image, a.tag)>>
      [] m = "PushImage" -> <<PushArgv(a.image)>>
      [] m = "BuildImage" ->
           <<BuildArgv(a)>> \o (IF a.tag # "" /\ a.push THEN <<PushArgv(a.tag)>> ELSE <<>>)

\* C14: a native-only method (Version, CGroupDriver, BuildImage, PushImage,
\* SaveImage, LoadImage, TagImage) never runs a statement of the CRI backend
\* and issues native commands only, which are those its arguments alone
\* determine, up to the first that fails, whatever UseCRI is; a delegating
\* method (PullImage, RemoveImage, ListContainers, the bulk container
\* methods, ContainerLogCmd) under UseCRI issues no native command and runs
\* in the CRI backend from its entry to its return.
C14_ModeIndependence ==
    /\ op[1] \in NativeOnly =>
         LET log == issued[1]
             want == NativeCommands(op[1], args[1])
         IN  /\ pc[1] \notin CRIPcs
             /\ \A i \in 1..Len(log) : IsNative(log[i])
             /\ IsPrefix(Argvs(log), want)
             /\ \A i \in 1..Len(log) : ~log[i].ok => i = Len(log)
             /\ Returned(1) => (Len(log) = Len(want) \/ ~log[Len(log)].ok)
    /\ (op[1] \in Delegating /\ cfg.UseCRI) =>
         /\ \A i \in 1..Len(issued[1]) : ~IsNative(issued[1][i])
         /\ pc[1] # "idle" => pc[1] \in CRIPcs

C14_Witness ==
    /\ Returned(1) /\ op[1] = "BuildImage" /\ cfg.UseCRI
    /\ args[1].tag = "myuser/app" /\ args[1].push
    /\ Argvs(issued[1]) = <<BuildArgv(args[1]), PushArgv("myuser/app")>>
    /\ ret[1] = Nil

\* C15: a Preload for which no bundle exists has returned nil at once: it
\* issued no command, no copy, no reference-store operation and no restart,
\* and the host is as the call found it.
C15_NoBundleNoop ==
    \A p \in Procs :
      (op[p] = "Preload" /\ ~args[p].cc.exists) =>
          /\ pc[p] = "idle"
          /\ ret[p] = Nil
          /\ issued[p] = <<>>
          /\ last.op = "Preload" /\ last.same = AllSame

C15_Witness ==
    /\ Returned(1) /\ op[1] = "Preload"
    /\ ~args[1].cc.exists
    /\ ret[1] = Nil /\ issued[1] = <<>>
    /\ last.same = AllSame /\ files[PreloadDest] = Absent

\* --------------------------------------------------------------------------
\* Properties of concurrent Enable and Disable
\* --------------------------------------------------------------------------

\* The service-manager steps of a complete Enable and of a complete Disable.
ServiceSteps(order) == SelectSeq(order, LAMBDA s : s.op \notin {"disableOthers",
                                                               "populateCRIConfig",
                                                               "Runner.Copy"})

EnableServiceSteps(c) == ServiceSteps(EnableOrder(NoArgs, c))
DisableServiceSteps(c) == ServiceSteps(DisableOrder(c))

\* The units after the service-manager step s succeeded.
ApplyStep(us, s) ==
    CASE s.op = "Init.Unmask" -> SvcUnmask(us, s.target, TRUE)
      [] s.op = "Init.Mask" -> SvcMask(us, s.target, TRUE)
      [] s.op = "Init.Enable" -> SvcEnable(us, s.target, TRUE)
      [] s.op = "Init.Disable" -> SvcDisable(us, s.target, TRUE)
      [] s.op = "Init.Start" -> SvcStart(us, s.target, TRUE)
      [] s.op = "Init.Restart" -> SvcRestart(us, s.target, TRUE)
      [] s.op = "Init.Stop" -> SvcStop(us, s.target, TRUE)
      [] s.op = "Init.ForceStop" -> SvcForceStop(us, s.target, TRUE)

RECURSIVE RunSteps(_, _)
\* The units after the steps ran one after the other from us.
RunSteps(us, steps) ==
    IF steps = <<>> THEN us ELSE RunSteps(ApplyStep(us, Head(steps)), Tail(steps))

\* The interleavings of m steps of caller 1 with n steps of caller 2: which
\* caller takes each step.
Schedules(m, n) ==
    {f \in [1..(m + n) -> {1, 2}] : Cardinality({i \in 1..(m + n) : f[i] = 1}) = m}

RECURSIVE RunSchedule(_, _, _, _)
\* The units after the steps A of caller 1 and B of caller 2 ran from us as
\* sched interleaves them.
RunSchedule(us, A, B, sched) ==
    IF sched = <<>> THEN us
    ELSE IF Head(sched) = 1
         THEN RunSchedule(ApplyStep(us, Head(A)), Tail(A), B, Tail(sched))
         ELSE RunSchedule(ApplyStep(us, Head(B)), A, Tail(B), Tail(sched))

\* Both callers' calls returned nil and no step of either failed.
BothDone ==
    \A p \in Procs : Returned(p) /\ ret[p] = Nil /\ AllOk(issued[p])

BothEnable == BothDone /\ op[1] = "Enable" /\ op[2] = "Enable" /\ args[1] = args[2]

EnableAndDisable == BothDone /\ {op[1], op[2]} = {"Enable", "Disable"}

\* The units after Enable then Disable, and after Disable then Enable.
SerialOutcomes ==
    { RunSteps(start, EnableServiceSteps(cfg) \o DisableServiceSteps(cfg)),
      RunSteps(start, DisableServiceSteps(cfg) \o EnableServiceSteps(cfg)) }

\* docker.service stopped and masked while the shim is enabled and started.
MaskedUnderShim ==
    /\ units[DockerService].masked /\ ~units[DockerService].active
    /\ cfg.CRIService # ""
    /\ units[cfg.CRIService].enabled /\ units[cfg.CRIService].active

\* C17: an Enable and a Disable that did not overlap, every step of which
\* succeeded, leave the units of one of the two serial orders, none of which
\* has docker.service stopped and masked under an enabled and started shim.
C17_SerialOutcomes ==
    EnableAndDisable =>
        /\ ~overlapped => units \in SerialOutcomes
        /\ \A us \in SerialOutcomes :
             ~(/\ us[DockerService].masked /\ ~us[DockerService].active
               /\ cfg.CRIService # ""
               /\ us[cfg.CRIService].enabled /\ us[cfg.CRIService].active)

\* C17 witness: an Enable and a Disable interleaved at single steps, every
\* step succeeding, left docker.service stopped and masked under an enabled
\* and started shim, which neither serial order leaves.
C17_Witness ==
    /\ EnableAndDisable /\ overlapped
    /\ MaskedUnderShim
    /\ units \notin SerialOutcomes

\* --------------------------------------------------------------------------
\* Properties of ListImages
\* --------------------------------------------------------------------------

\* TRUE iff the row is not empty and does not parse or its size does not convert.
BadRow(row) == ~row.empty /\ (~row.json \/ row.Size \notin {"13.3kB", "1GB"})

\* C18: ListImages returns an error and no record when the listing command
\* failed or a row that is not empty does not parse or its size does not
\* convert; otherwise it returns nil and one record for each row that is not
\* empty, in the order of the rows, with the ID without its sha256: prefix
\* and with one RepoTags entry, addDockerIO of "<repository>:<tag>".
C18_ListImages ==
    (Returned(1) /\ op[1] = "ListImages") =>
        LET rows == args[1].rows
            kept == SelectSeq(rows, LAMBDA r : ~r.empty)
        IN  IF ~issued[1][1].ok \/ \E i \in 1..Len(rows) : BadRow(rows[i])
            THEN ret[1].kind = "error" /\ out[1] = <<>>
            ELSE /\ ret[1] = Nil
                 /\ Len(out[1]) = Len(kept)
                 /\ \A i \in 1..Len(kept) :
                      /\ out[1][i].ID = <<kept[i].ID[Len(kept[i].ID)]>>
                      /\ Len(out[1][i].RepoTags) = 1
                      /\ out[1][i].RepoTags[1].name = addDockerIO(kept[i].Repository)
                      /\ out[1][i].RepoTags[1].tag = kept[i].Tag

C18_Witness ==
    /\ Returned(1) /\ op[1] = "ListImages"
    /\ issued[1][1].ok
    /\ Len(args[1].rows) = 2
    /\ ~args[1].rows[1].empty /\ ~BadRow(args[1].rows[1])
    /\ BadRow(args[1].rows[2])
    /\ ret[1] = Err("Image size convert problem") /\ out[1] = <<>>

\* --------------------------------------------------------------------------
\* Properties of Disable followed by Enable and of Enable followed by Disable
\* --------------------------------------------------------------------------

\* The last two calls were m then n and both returned nil.
Followed(m, n) ==
    /\ pc[1] = "idle"
    /\ last.op = n /\ last.ret = Nil
    /\ last.prev.op = m /\ last.prev.nil

\* docker.service unmasked and running, docker.socket enabled, the shim
\* enabled and started.
ServicesUp ==
    /\ ~units[DockerService].masked /\ units[DockerService].active
    /\ units[DockerSocket].enabled
    /\ cfg.CRIService # "" =>
         units[cfg.CRIService].enabled /\ units[cfg.CRIService].active

\* docker.service stopped and masked, docker.socket disabled, the shim
\* stopped and disabled.
ServicesDown ==
    /\ units[DockerService].masked /\ ~units[DockerService].active
    /\ ~units[DockerSocket].enabled
    /\ cfg.CRIService # "" =>
         ~units[cfg.CRIService].enabled /\ ~units[cfg.CRIService].active

Removals(log) == {i \in 1..Len(log) : Names(log)[i] = RemoveStep}

\* C20: Preload issues the removal of the staged bundle only after an
\* extraction that succeeded; a Preload whose extraction failed has returned
\* with the extraction as its last step, without a removal, and the staged
\* file is still at its path on the host.
C20_RemoveAfterExtract ==
    \A p \in Procs :
      op[p] = "Preload" =>
        LET log == issued[p]
        IN  /\ \A i \in Removals(log) : Before(log, i, CmdRec(TarCmd, TRUE))
            /\ (\E i \in 1..Len(log) : log[i] = CmdRec(TarCmd, FALSE)) =>
                 /\ pc[p] = "idle" /\ ret[p].kind = "error"
                 /\ log[Len(log)] = CmdRec(TarCmd, FALSE)
                 /\ Removals(log) = {}
                 /\ files[PreloadDest] = Tarball

C20_Witness ==
    /\ Returned(1) /\ op[1] = "Preload"
    /\ Len(issued[1]) > 0
    /\ issued[1][Len(issued[1])] = CmdRec(TarCmd, FALSE)
    /\ Removals(issued[1]) = {}
    /\ files[PreloadDest] = Tarball
    /\ entry[1] = NoHost /\ last.same.images /\ ~last.same.files

TypeOK ==
    /\ cfg \in Configs \cup QueryConfigs
    /\ units \in [Units -> UnitState]
    /\ left \in Nat
    /\ overlapped \in BOOLEAN
====
